---- MODULE Spec2Model ----
(***************************************************************************)
(* Reminder scheduling and delivery engine of MediReminder.                *)
(*                                                                         *)
(*  - the due-time matcher of the useNotifications hook (periodic ticker,  *)
(*    in-memory "already notified" set, 24 h eviction timers, local        *)
(*    delivery),                                                           *)
(*  - the reminders API route (creation pre-schedules remote jobs,         *)
(*    deletion cancels them) and the notification schedule route,          *)
(*  - the OneSignal module (initOneSignal, ensureSubscribed,               *)
(*    setExternalUserId) and the OneSignalInit component flows.            *)
(*                                                                         *)
(* Wall-clock time is counted in seconds since local midnight of day 0.    *)
(***************************************************************************)
EXTENDS Integers, Sequences, FiniteSets, TLC

(***************************************************************************)
(* Program constants                                                       *)
(***************************************************************************)
\* setInterval(..., 30000): the matcher's period, in seconds
CheckIntervalSec == 30
\* const oneMinute = 60 * 1000: the appointment tolerance, in seconds
OneMinuteSec == 60
\* setTimeout(..., 24 * 60 * 60 * 1000): the eviction delay, in seconds
RetentionSec == 24 * 60 * 60
SecondsPerDay == 24 * 60 * 60
SecondsPerHour == 60 * 60

(***************************************************************************)
(* Bounds of the model                                                     *)
(***************************************************************************)
\* how many check intervals the clock advances in one behaviour
MaxSteps == 6
\* how many whole-day jumps the clock makes in one behaviour
MaxDayJumps == 1

Abs(x) == IF x < 0 THEN -x ELSE x
Min(x, y) == IF x < y THEN x ELSE y

(***************************************************************************)
(* Date and time-of-day.  "HH:MM" strings are sequences of four digits.    *)
(***************************************************************************)
\* `${h.toString().padStart(2, '0')}:${m.toString().padStart(2, '0')}`
FormatTime(h, m) == <<h \div 10, h % 10, m \div 10, m % 10>>
\* time.split(':').map(Number)
ParseTime(s) == <<s[1] * 10 + s[2], s[3] * 10 + s[4]>>
\* now.getHours(), now.getMinutes(), now.toDateString()
HoursOf(t) == (t % SecondsPerDay) \div SecondsPerHour
MinutesOf(t) == ((t % SecondsPerDay) % SecondsPerHour) \div 60
DateOf(t) == t \div SecondsPerDay
CurrentTime(t) == FormatTime(HoursOf(t), MinutesOf(t))
\* date.setHours(hours, minutes, 0, 0) on calendar day d
AtTime(d, s) == d * SecondsPerDay + ParseTime(s)[1] * SecondsPerHour + ParseTime(s)[2] * 60

(***************************************************************************)
(* Reminders.  A reminder is known to the client under the id the client   *)
(* generated for it, and (after a reload) under the id the database gave   *)
(* its row; both carry the same content.                                   *)
(***************************************************************************)
NoDate == -1
\* the calendar day on which every behaviour starts
StartDay == 7

Contents == {1, 2, 3, 4, 5, 6}
ContentFields ==
  [c \in Contents |->
    CASE c = 1 -> [type |-> "medication", times |-> <<FormatTime(23, 59), FormatTime(0, 0)>>,
                   startDate |-> 0, endDate |-> NoDate, frequency |-> "daily",
                   appointmentDate |-> NoDate, reminderAdvance |-> 0,
                   nextDate |-> StartDay + 1, taken |-> FALSE]
      [] c = 2 -> [type |-> "medication", times |-> <<FormatTime(23, 59)>>,
                   startDate |-> StartDay - 6, endDate |-> NoDate, frequency |-> "weekly",
                   appointmentDate |-> NoDate, reminderAdvance |-> 0,
                   nextDate |-> StartDay + 1, taken |-> TRUE]
      [] c = 3 -> [type |-> "appointment", times |-> <<FormatTime(1, 0)>>,
                   startDate |-> StartDay, endDate |-> NoDate, frequency |-> "daily",
                   appointmentDate |-> StartDay + 1, reminderAdvance |-> 1,
                   nextDate |-> StartDay + 1, taken |-> FALSE]
      [] c = 4 -> [type |-> "appointment", times |-> <<>>,
                   startDate |-> StartDay, endDate |-> NoDate, frequency |-> "daily",
                   appointmentDate |-> StartDay + 1, reminderAdvance |-> 1,
                   nextDate |-> StartDay + 1, taken |-> FALSE]
      [] c = 5 -> [type |-> "appointment", times |-> <<FormatTime(0, 0)>>,
                   startDate |-> StartDay, endDate |-> NoDate, frequency |-> "daily",
                   appointmentDate |-> StartDay + 1, reminderAdvance |-> 1,
                   nextDate |-> StartDay + 1, taken |-> FALSE]
      [] c = 6 -> [type |-> "medication", times |-> <<FormatTime(23, 59)>>,
                   startDate |-> StartDay - 6, endDate |-> NoDate, frequency |-> "weekly",
                   appointmentDate |-> NoDate, reminderAdvance |-> 0,
                   nextDate |-> StartDay + 1, taken |-> FALSE]]

\* id: crypto/Date-based id made by the client form; the row id made by the database
ClientId(c) == c
DbId(c) == 10 + c
ContentOf(id) == id % 10
ReminderIds == {ClientId(c) : c \in Contents} \cup {DbId(c) : c \in Contents}
Reminder(id) == [id |-> id] @@ ContentFields[ContentOf(id)]

(***************************************************************************)
(* The calendar page's recurrence rule (getRemindersForDate).  Dates are   *)
(* days counted from 2024-01-01 (day 0); a Date is seconds since the local *)
(* midnight of day 0 in the zone's winter time.                            *)
(***************************************************************************)
\* January to June 2024
MonthLengths == <<31, 29, 31, 30, 31, 30>>

RECURSIVE DayOfMonthFrom(_, _)
DayOfMonthFrom(d, m) ==
  IF d < MonthLengths[m] THEN d + 1 ELSE DayOfMonthFrom(d - MonthLengths[m], m + 1)

RECURSIVE MonthFrom(_, _)
MonthFrom(d, m) == IF d < MonthLengths[m] THEN m ELSE MonthFrom(d - MonthLengths[m], m + 1)

\* checkDate.getDate(), checkDate.getMonth() + 1
DayOfMonth(d) == DayOfMonthFrom(d, 1)
MonthOf(d) == MonthFrom(d, 1)

\* the browser's time zone: no daylight saving, clocks put forward one hour in the night
\* of a day (2024-03-10), or put back one hour (2024-04-07)
NoDst == [kind |-> "none", day |-> NoDate]
TimeZones == {NoDst, [kind |-> "spring", day |-> 69], [kind |-> "autumn", day |-> 97]}

\* date.setHours(0, 0, 0, 0); date.getTime(): local midnight of a day; after the clocks
\* went forward local midnight comes an hour earlier, after they went back an hour later
LocalMidnight(d, tz) ==
  d * SecondsPerDay
    - (IF tz.kind = "spring" /\ d > tz.day THEN SecondsPerHour ELSE 0)
    + (IF tz.kind = "autumn" /\ d > tz.day THEN SecondsPerHour ELSE 0)

\* endDate.setHours(23, 59, 59, 999): the last second of the day
EndOfDay(d, tz) == LocalMidnight(d + 1, tz) - 1

\* the filter without the range check
getRemindersForDateNoRange(r, date, tz) ==
  LET startDate == LocalMidnight(r.startDate, tz)
      checkDate == LocalMidnight(date, tz)
      daysDiff == (checkDate - startDate) \div SecondsPerDay
  IN CASE r.frequency = "daily" -> TRUE
       [] r.frequency = "weekly" -> daysDiff % 7 = 0
       [] r.frequency = "monthly" -> DayOfMonth(date) = DayOfMonth(r.startDate)
       [] OTHER -> TRUE

\* the filter with a monthly rule that moves to the month's last day
getRemindersForDateClamped(r, date, tz) ==
  LET startDate == LocalMidnight(r.startDate, tz)
      checkDate == LocalMidnight(date, tz)
      daysDiff == (checkDate - startDate) \div SecondsPerDay
      last == MonthLengths[MonthOf(date)]
  IN IF checkDate < startDate \/ (r.endDate # NoDate /\ checkDate > EndOfDay(r.endDate, tz))
     THEN FALSE
     ELSE CASE r.frequency = "daily" -> TRUE
            [] r.frequency = "weekly" -> daysDiff % 7 = 0
            [] r.frequency = "monthly" ->
                 DayOfMonth(date) = Min(DayOfMonth(r.startDate), last)
            [] OTHER -> TRUE

\* getRemindersForDate(date), for one reminder: is it kept by the filter
getRemindersForDate(r, date, tz) ==
  LET startDate == LocalMidnight(r.startDate, tz)
      checkDate == LocalMidnight(date, tz)
      daysDiff == (checkDate - startDate) \div SecondsPerDay
  IN IF checkDate < startDate \/ (r.endDate # NoDate /\ checkDate > EndOfDay(r.endDate, tz))
     THEN FALSE
     ELSE CASE r.frequency = "daily" -> TRUE
            [] r.frequency = "weekly" -> daysDiff % 7 = 0
            [] r.frequency = "monthly" -> DayOfMonth(date) = DayOfMonth(r.startDate)
            [] OTHER -> TRUE

\* the page before a date is selected
NoCalendar == [reminder |-> <<>>, tz |-> NoDst, date |-> NoDate, due |-> FALSE]

(***************************************************************************)
(* lib/notifications.ts: scheduleNotification and                          *)
(* scheduleReminderNotifications, on the browser's timers                  *)
(***************************************************************************)
\* the first day of month m, and notificationDate.setMonth(getMonth() + 1): the same
\* day-of-month in the next month, running over into the month after when the next
\* month is shorter
RECURSIVE FirstDayOfMonth(_)
FirstDayOfMonth(m) == IF m = 1 THEN 0 ELSE FirstDayOfMonth(m - 1) + MonthLengths[m - 1]
AddMonth(d) == FirstDayOfMonth(MonthOf(d) + 1) + DayOfMonth(d) - 1

\* the state threaded through one run: the ids returned, the timers set as
\* <<id, time it fires>>, the notifications shown at once, the next setTimeout handle
Browser(next) == [ids |-> <<>>, timers |-> {}, shown |-> {}, next |-> next]

\* scheduleNotification(title, body, scheduledTime): delay <= 0 shows the notification
\* immediately and returns -1; otherwise window.setTimeout, whose id is returned
scheduleNotification(b, time, scheduledTime, now) ==
  IF scheduledTime - now <= 0
  THEN [result |-> -1, b |-> [b EXCEPT !.shown = @ \cup {<<time, scheduledTime>>}]]
  ELSE [result |-> b.next,
        b |-> [b EXCEPT !.timers = @ \cup {<<b.next, scheduledTime>>}, !.next = @ + 1]]

\* times.forEach((time) => ...), from index i on: the time on startDate, moved one
\* period forward when it is not after now; if (timeoutId > 0) timeoutIds.push(timeoutId)
RECURSIVE ScheduleFrom(_, _, _, _, _, _)
ScheduleFrom(b, times, i, startDate, frequency, now) ==
  IF i > Len(times) THEN b
  ELSE LET onStart == AtTime(startDate, times[i])
           date == IF onStart <= now
                   THEN CASE frequency = "daily" -> startDate + 1
                          [] frequency = "weekly" -> startDate + 7
                          [] frequency = "monthly" -> AddMonth(startDate)
                          [] OTHER -> startDate
                   ELSE startDate
           r == scheduleNotification(b, times[i], AtTime(date, times[i]), now)
           b1 == IF r.result > 0 THEN [r.b EXCEPT !.ids = Append(@, r.result)] ELSE r.b
       IN ScheduleFrom(b1, times, i + 1, startDate, frequency, now)

\* scheduleReminderNotifications(name, times, startDate, frequency, type, dosage)
scheduleReminderNotifications(times, startDate, frequency, now, next) ==
  ScheduleFrom(Browser(next), times, 1, startDate, frequency, now)

NoSchedule == [made |-> FALSE, times |-> <<>>, startDate |-> NoDate, frequency |-> "daily",
               now |-> 0, ids |-> <<>>, timers |-> {}, shown |-> {}]

(***************************************************************************)
(* State                                                                   *)
(***************************************************************************)
VARIABLES
  clock,                  \* wall clock, seconds
  steps,                  \* check intervals elapsed so far
  jumps,                  \* whole-day jumps made so far
  browserPermission,      \* Notification.permission
  notificationPermission, \* useNotifications: useState('default')
  serviceWorkerReady,     \* useNotifications: useState(false)
  effectSwReady,          \* serviceWorkerReady as captured by the running ticker's closure
  intervalActive,         \* the ticker effect's last run set an interval (and returned its cleanup)
  intervals,              \* the handles of the intervals that are set and not cleared
  checkIntervalRef,       \* checkIntervalRef.current (0: null)
  sinceTick,              \* seconds since checkReminders last ran (capped at GapCap)
  notifiedReminders,      \* notifiedRemindersRef.current
  evictTimers,            \* pending setTimeout(delete key) timers: <<key, due>>
  deliveries,             \* history: what triggerNotification did, per call
  reminders,              \* the hook's reminders argument: sequence of reminder ids
  hookPc,                 \* the mount effect: "mount", "registering", "done"
  showOk,                 \* registration.showNotification() currently succeeds
  config,                 \* the server's environment: which gateway credentials are set
  hasToken,               \* the push SDK holds a device token (PushSubscription.id)
  linked,                 \* the push SDK user is logged in under the external user id
  rows,                   \* the reminders table: row id -> its notification_ids
  remoteJobs,             \* the gateway's jobs
  gatewayLog,             \* history: requests that reached the gateway
  pushDeliveries,         \* history: pushes the service worker displayed
  lastResponse,           \* the last answer of the notification schedule route
  apiResponse,            \* the last answer of the reminders route
  calendar,               \* the calendar page: its reminder, time zone, selected date
  edgeRuns,               \* history: the runs of the send-notifications edge function
  scheduled,              \* notifications.ts: the last run of scheduleReminderNotifications
  isInitialized,          \* onesignal.ts: let isInitialized
  initPromise,            \* onesignal.ts: let initPromise (0: null, else the attempt's number)
  attempts,               \* the initialization attempts started so far: number -> status
  callers,                \* the running flows that use the OneSignal module
  sdkLog                  \* history: calls made to the push SDK

hookVars == <<browserPermission, notificationPermission, serviceWorkerReady, effectSwReady,
              intervalActive, intervals, checkIntervalRef, notifiedReminders, evictTimers,
              deliveries, reminders, hookPc, showOk>>
matcherVars == <<notificationPermission, serviceWorkerReady, effectSwReady, intervalActive,
                 intervals, checkIntervalRef,
                 notifiedReminders, evictTimers, deliveries, reminders, hookPc, showOk>>
clockVars == <<clock, steps, jumps, sinceTick>>
timeVars == <<clock, steps, jumps>>
deviceVars == <<hasToken, linked>>
serverVars == <<config, rows, remoteJobs, gatewayLog, pushDeliveries, lastResponse,
                apiResponse, calendar, edgeRuns, scheduled>>
sdkVars == <<isInitialized, initPromise, attempts, callers, sdkLog>>
vars == <<clockVars, hookVars, deviceVars, serverVars, sdkVars>>

(***************************************************************************)
(* useNotifications: the due-time matcher                                  *)
(***************************************************************************)
\* isTimeMatch(reminderTime, currentTime)
isTimeMatch(reminderTime, currentTime) ==
  LET r == ParseTime(reminderTime)
      c == ParseTime(currentTime)
  IN r[1] = c[1] /\ Abs(r[2] - c[2]) <= 1

\* `${reminder.id}-${time}-${now.toDateString()}`
MedicationKey(id, time, now) == <<id, "time", time, DateOf(now)>>
\* `${reminder.id}-appointment-${appointmentDate.toISOString()}`
AppointmentKey(id, appointmentTs) == <<id, "appointment", appointmentTs>>

\* the matcher state threaded through one run of checkReminders
MatcherState(notified, timers, log) ==
  [notified |-> notified, timers |-> timers, log |-> log, aborted |-> FALSE]

\* triggerNotification(reminder, isAdvanceReminder): sound, platform notification when
\* notifications are enabled and the captured serviceWorkerReady is true, toast; the
\* entry also keeps the permission and the hook's serviceWorkerReady state of the moment
triggerNotification(m, key, now, env) ==
  [m EXCEPT !.log = @ \cup
     {[key |-> key, n |-> Cardinality({d \in m.log : d.key = key}) + 1,
       at |-> now,
       claimedBefore |-> key \in m.notified,
       sound |-> TRUE,
       permission |-> env.permission,
       registered |-> serviceWorkerReady,
       platform |-> IF env.permission = "granted" /\ env.swReady
                    THEN (IF env.showOk THEN "shown" ELSE "failed")
                    ELSE "skipped",
       toast |-> TRUE]}]

\* the eviction timer is set but the key is not added to the set
RecordKeyTimerOnly(m, key, now) ==
  [m EXCEPT !.timers = @ \cup {<<key, now + RetentionSec>>}]

\* notifiedRemindersRef.current.add(key); setTimeout(() => delete(key), 24h)
RecordKey(m, key, now) ==
  [m EXCEPT !.notified = @ \cup {key},
            !.timers = @ \cup {<<key, now + RetentionSec>>}]

\* the notification is triggered and nothing is recorded
DeliverWithoutClaim(m, key, now, env) ==
  triggerNotification(m, key, now, env)

\* the key is recorded only when the platform notification was shown
ClaimOnlyIfShown(m, key, now, env) ==
  IF env.permission = "granted" /\ env.swReady /\ env.showOk
  THEN RecordKey(triggerNotification(m, key, now, env), key, now)
  ELSE triggerNotification(m, key, now, env)

\* the body of  if (due && !notified.has(key)) { trigger; add; setTimeout }
ClaimAndDeliver(m, key, now, env) ==
  RecordKey(triggerNotification(m, key, now, env), key, now)

\* reminder.times.forEach((time) => ...), from index i on
RECURSIVE CheckTimes(_, _, _, _, _)
CheckTimes(m, r, i, now, env) ==
  IF i > Len(r.times) THEN m
  ELSE LET time == r.times[i]
           key == MedicationKey(r.id, time, now)
           m1 == IF isTimeMatch(time, CurrentTime(now)) /\ key \notin m.notified
                 THEN ClaimAndDeliver(m, key, now, env)
                 ELSE m
       IN CheckTimes(m1, r, i + 1, now, env)

\* the appointment branch of checkReminders; reminder.times[0].split throws on an empty list
CheckAppointment(m, r, now, env) ==
  IF Len(r.times) = 0 THEN [m EXCEPT !.aborted = TRUE]
  ELSE LET appointmentTs == AtTime(r.appointmentDate, r.times[1])
           reminderTime == appointmentTs - r.reminderAdvance * SecondsPerHour
           key == AppointmentKey(r.id, appointmentTs)
           timeDiff == Abs(now - reminderTime)
       IN IF timeDiff <= OneMinuteSec /\ key \notin m.notified
          THEN ClaimAndDeliver(m, key, now, env)
          ELSE m

\* reminders.forEach((reminder) => ...), from index i on; an exception ends the loop
RECURSIVE CheckFrom(_, _, _, _, _)
CheckFrom(m, list, i, now, env) ==
  IF i > Len(list) \/ m.aborted THEN m
  ELSE LET r == Reminder(list[i])
           m1 == IF r.type = "appointment" /\ r.appointmentDate # NoDate /\ r.reminderAdvance # 0
                 THEN CheckAppointment(m, r, now, env)
                 ELSE CheckTimes(m, r, 1, now, env)
       IN CheckFrom(m1, list, i + 1, now, env)

\* checkReminders()
checkReminders(m, list, now, env) == CheckFrom(m, list, 1, now, env)

(***************************************************************************)
(* The hook's effects and handlers                                         *)
(***************************************************************************)
NoTime == -1
\* "longer ago than the tolerance": the value at which sinceTick stops counting
GapCap == OneMinuteSec + CheckIntervalSec
Permissions == {"default", "granted", "denied"}
StartClocks == {AtTime(StartDay, FormatTime(23, 59))}

\* the ticker effect without its cleanup: the interval of the previous run stays set
RunEffectNoCleanup(list, perm, bperm) ==
  LET kept == intervals
      handle == CHOOSE h \in 1..(Cardinality(kept) + 1) : h \notin kept
  IN IF perm = "granted" /\ Len(list) > 0
     THEN LET env == [permission |-> bperm, swReady |-> serviceWorkerReady,
                      showOk |-> showOk]
              m == checkReminders(MatcherState(notifiedReminders, evictTimers, deliveries),
                                  list, clock, env)
          IN /\ intervalActive' = TRUE
             /\ intervals' = kept \cup {handle}
             /\ checkIntervalRef' = handle
             /\ effectSwReady' = serviceWorkerReady
             /\ sinceTick' = 0
             /\ notifiedReminders' = m.notified
             /\ evictTimers' = m.timers
             /\ deliveries' = m.log
     ELSE /\ intervalActive' = FALSE
          /\ intervals' = kept
          /\ UNCHANGED <<checkIntervalRef, effectSwReady, sinceTick, notifiedReminders,
                         evictTimers, deliveries>>

\* useEffect(() => {...}, [reminders, notificationPermission]): the cleanup returned by
\* the previous run, if it returned one, clears the interval checkIntervalRef.current
\* holds; with permission granted and a non-empty list a new interval is set, its handle
\* is stored in the ref, and checkReminders runs at once
RunEffect(list, perm, bperm) ==
  LET kept == IF intervalActive THEN intervals \ {checkIntervalRef} ELSE intervals
      handle == CHOOSE h \in 1..(Cardinality(kept) + 1) : h \notin kept
  IN IF perm = "granted" /\ Len(list) > 0
     THEN LET env == [permission |-> bperm, swReady |-> serviceWorkerReady,
                      showOk |-> showOk]
              m == checkReminders(MatcherState(notifiedReminders, evictTimers, deliveries),
                                  list, clock, env)
          IN /\ intervalActive' = TRUE
             /\ intervals' = kept \cup {handle}
             /\ checkIntervalRef' = handle
             /\ effectSwReady' = serviceWorkerReady
             /\ sinceTick' = 0
             /\ notifiedReminders' = m.notified
             /\ evictTimers' = m.timers
             /\ deliveries' = m.log
     ELSE /\ intervalActive' = FALSE
          /\ intervals' = kept
          /\ UNCHANGED <<checkIntervalRef, effectSwReady, sinceTick, notifiedReminders,
                         evictTimers, deliveries>>

NoEffect ==
  UNCHANGED <<intervalActive, intervals, checkIntervalRef, effectSwReady, sinceTick,
              notifiedReminders, evictTimers,
              deliveries>>

\* the mount effect, first half: setNotificationPermission(getNotificationPermission())
MountEffect ==
  /\ hookPc = "mount"
  /\ hookPc' = "registering"
  /\ notificationPermission' = browserPermission
  /\ IF browserPermission # notificationPermission
     THEN RunEffect(reminders, browserPermission, browserPermission)
     ELSE NoEffect
  /\ UNCHANGED <<browserPermission, serviceWorkerReady, reminders, showOk, timeVars, deviceVars,
                  serverVars, sdkVars>>

\* the mount effect, second half: initNotifications() settles; setServiceWorkerReady(true)
\* when it returned a registration
SwRegistered(ok) ==
  /\ hookPc = "registering"
  /\ hookPc' = "done"
  /\ serviceWorkerReady' = (serviceWorkerReady \/ ok)
  /\ NoEffect
  /\ UNCHANGED <<browserPermission, notificationPermission, reminders, showOk, timeVars, deviceVars,
                  serverVars, sdkVars>>

\* requestPermission(): Notification.requestPermission() answers with the user's choice
\* when the permission is still 'default', and with the stored permission otherwise
RequestPermission(answer, ok) ==
  /\ hookPc # "mount"
  /\ LET newPermission == IF browserPermission = "default" THEN answer ELSE browserPermission
     IN /\ browserPermission' = newPermission
        /\ notificationPermission' = newPermission
        /\ serviceWorkerReady' =
             (serviceWorkerReady \/ (newPermission = "granted" /\ ok))
        /\ IF newPermission # notificationPermission
           THEN RunEffect(reminders, newPermission, newPermission)
           ELSE NoEffect
  /\ UNCHANGED <<reminders, hookPc, showOk, timeVars, deviceVars, serverVars, sdkVars>>

\* the lists the page hands to the hook, one after another
ReminderLists == {<<>>, <<ClientId(1)>>, <<ClientId(2), ClientId(1)>>,
                  <<ClientId(3), ClientId(2), ClientId(1)>>}

\* the page renders useNotifications(reminders) with a new list
SetRemindersTo(lists) ==
  \E list \in lists :
    /\ hookPc # "mount"
    /\ reminders' = list
    /\ RunEffect(list, notificationPermission, browserPermission)
    /\ UNCHANGED <<browserPermission, notificationPermission, serviceWorkerReady, hookPc,
                   showOk, timeVars, deviceVars, serverVars, sdkVars>>

SetReminders == SetRemindersTo(ReminderLists)

\* the interval callback: checkReminders() with the closure of the render that set it
Tick ==
  /\ intervalActive
  /\ sinceTick > 0
  /\ LET env == [permission |-> browserPermission, swReady |-> effectSwReady,
                   showOk |-> showOk]
         m == checkReminders(MatcherState(notifiedReminders, evictTimers, deliveries),
                             reminders, clock, env)
     IN /\ notifiedReminders' = m.notified
        /\ evictTimers' = m.timers
        /\ deliveries' = m.log
  /\ sinceTick' = 0
  /\ UNCHANGED <<browserPermission, notificationPermission, serviceWorkerReady, effectSwReady,
                 intervalActive, intervals, checkIntervalRef, reminders, hookPc, showOk,
                 timeVars,
                 deviceVars, serverVars, sdkVars>>

\* an eviction that does not wait for its timer
EvictTimerFiresEarly ==
  \E t \in evictTimers :
    /\ notifiedReminders' = notifiedReminders \ {t[1]}
    /\ evictTimers' = evictTimers \ {t}
    /\ UNCHANGED <<browserPermission, notificationPermission, serviceWorkerReady,
                   effectSwReady, intervalActive, intervals, checkIntervalRef, deliveries,
                   reminders, hookPc, showOk, clockVars, deviceVars, serverVars, sdkVars>>

\* a 24 h eviction timer fires: notifiedRemindersRef.current.delete(reminderKey)
EvictTimerFires ==
  \E t \in evictTimers :
    /\ t[2] <= clock
    /\ notifiedReminders' = notifiedReminders \ {t[1]}
    /\ evictTimers' = evictTimers \ {t}
    /\ UNCHANGED <<browserPermission, notificationPermission, serviceWorkerReady,
                   effectSwReady, intervalActive, intervals, checkIntervalRef, deliveries,
                   reminders, hookPc, showOk, clockVars, deviceVars, serverVars, sdkVars>>

\* the user changes the site's notification permission in the browser settings
UserSetsPermission ==
  \E p \in Permissions :
    /\ p # browserPermission
    /\ browserPermission' = p
    /\ UNCHANGED <<notificationPermission, serviceWorkerReady, effectSwReady, intervalActive,
                   intervals, checkIntervalRef,
                   notifiedReminders, evictTimers, deliveries,
                   reminders, hookPc, showOk, clockVars, deviceVars, serverVars, sdkVars>>

\* time passes; a timer that is due runs before anything later
NoTimerOverdue == \A t \in evictTimers : t[2] > clock

Advance ==
  /\ steps < MaxSteps
  /\ NoTimerOverdue
  /\ clock' = clock + CheckIntervalSec
  /\ steps' = steps + 1
  /\ sinceTick' = Min(sinceTick + CheckIntervalSec, GapCap)
  /\ UNCHANGED <<jumps, hookVars, deviceVars, serverVars, sdkVars>>

\* the device sleeps for a day (the page stays open, no timer runs meanwhile)
DayJump ==
  /\ jumps < MaxDayJumps
  /\ NoTimerOverdue
  /\ clock' = clock + SecondsPerDay
  /\ jumps' = jumps + 1
  /\ sinceTick' = GapCap
  /\ UNCHANGED <<steps, hookVars, deviceVars, serverVars, sdkVars>>

(***************************************************************************)
(* Subscription state of the device, derived from the platform permission, *)
(* the device token, the external-id login and a pending permission prompt *)
(***************************************************************************)
PromptPending == \E p \in DOMAIN callers : callers[p].pc = "prompt"

SubscriptionState ==
  IF browserPermission = "denied" THEN "Denied"
  ELSE IF browserPermission = "granted" /\ hasToken
       THEN (IF linked THEN "Linked" ELSE "Subscribed")
  ELSE IF PromptPending THEN "PermissionRequested"
  ELSE "Unregistered"

(***************************************************************************)
(* /api/notifications/schedule                                             *)
(***************************************************************************)
NoJob == <<>>
\* session.user_id of the custom_session cookie: the user of the page, and another user
Users == {"user", "otherUser"}
SessionUser == "user"
\* what the gateway does with a request that reaches it
GatewayOutcomes == {"accepted", "no_id", "rejected", "unreachable"}

\* the server state threaded through one request
Server(jobs, log, last) == [jobs |-> jobs, log |-> log, last |-> last]

Response(status, success, notificationId, sent) ==
  [status |-> status, success |-> success, notificationId |-> notificationId, sent |-> sent]

\* how many requests of one kind the gateway has had for a job, and what the gateway
\* holds the job as
RequestsFor(log, op, job) == Cardinality({e \in log : e.op = op /\ e.job = job})
JobStatus(jobs, job) ==
  IF \E j \in jobs : j.id = job THEN (CHOOSE j \in jobs : j.id = job).status ELSE "None"

\* POST without the test of the REST key
SchedulePOSTKeyUnchecked(srv, req, gw) ==
  IF ~req.hasCookie THEN [srv EXCEPT !.last = Response(401, FALSE, NoJob, FALSE)]
  ELSE IF ~req.hasFields THEN [srv EXCEPT !.last = Response(400, FALSE, NoJob, FALSE)]
  ELSE IF config.appId # "set" THEN [srv EXCEPT !.last = Response(500, FALSE, NoJob, FALSE)]
  ELSE LET entry == [op |-> "schedule", job |-> req.job, sendAfter |-> req.sendAfter,
                     state |-> SubscriptionState, outcome |-> gw,
                     attempt |-> RequestsFor(srv.log, "schedule", req.job) + 1,
                     jobStatus |-> JobStatus(srv.jobs, req.job),
                     answered |-> CASE gw \in {"accepted", "no_id"} -> 200
                                    [] gw = "rejected" -> 400
                                    [] OTHER -> 500]
           logged == srv.log \cup {entry}
       IN CASE gw = "accepted" ->
                 [jobs |-> srv.jobs \cup {[id |-> req.job, reminderId |-> req.reminderId,
                                           time |-> req.time, sendAfter |-> req.sendAfter,
                                           user |-> req.user, status |-> "Pending"]},
                  log |-> logged,
                  last |-> Response(entry.answered, TRUE, req.job, TRUE)]
            [] gw = "no_id" ->
                 [srv EXCEPT !.log = logged,
                             !.last = Response(entry.answered, TRUE, NoJob, TRUE)]
            [] OTHER ->
                 [srv EXCEPT !.log = logged,
                             !.last = Response(entry.answered, FALSE, NoJob, TRUE)]

\* POST: 401 without the session cookie, 400 without title/message/sendAfter, 500 when
\* the app id or the REST key is empty or the placeholder; otherwise the request goes to
\* the gateway, addressed to the session's user_id, and its answer is passed on
SchedulePOST(srv, req, gw) ==
  IF ~req.hasCookie THEN [srv EXCEPT !.last = Response(401, FALSE, NoJob, FALSE)]
  ELSE IF ~req.hasFields THEN [srv EXCEPT !.last = Response(400, FALSE, NoJob, FALSE)]
  ELSE IF config.appId # "set" THEN [srv EXCEPT !.last = Response(500, FALSE, NoJob, FALSE)]
  ELSE IF config.restKey # "set" THEN [srv EXCEPT !.last = Response(500, FALSE, NoJob, FALSE)]
  ELSE LET entry == [op |-> "schedule", job |-> req.job, sendAfter |-> req.sendAfter,
                     state |-> SubscriptionState, outcome |-> gw,
                     attempt |-> RequestsFor(srv.log, "schedule", req.job) + 1,
                     jobStatus |-> JobStatus(srv.jobs, req.job),
                     answered |-> CASE gw \in {"accepted", "no_id"} -> 200
                                    [] gw = "rejected" -> 400
                                    [] OTHER -> 500]
           logged == srv.log \cup {entry}
       IN CASE gw = "accepted" ->
                 [jobs |-> srv.jobs \cup {[id |-> req.job, reminderId |-> req.reminderId,
                                           time |-> req.time, sendAfter |-> req.sendAfter,
                                           user |-> req.user, status |-> "Pending"]},
                  log |-> logged,
                  last |-> Response(entry.answered, TRUE, req.job, TRUE)]
            [] gw = "no_id" ->
                 [srv EXCEPT !.log = logged,
                             !.last = Response(entry.answered, TRUE, NoJob, TRUE)]
            [] OTHER ->
                 [srv EXCEPT !.log = logged,
                             !.last = Response(entry.answered, FALSE, NoJob, TRUE)]

\* DELETE: 401 without the cookie, 400 without an id, 500 when the app id or the REST key
\* is empty; otherwise the gateway is asked to cancel the job. The cookie's value is
\* not parsed: the session's user_id takes no part in the request
ScheduleDELETE(srv, req, gw) ==
  IF ~req.hasCookie THEN [srv EXCEPT !.last = Response(401, FALSE, NoJob, FALSE)]
  ELSE IF req.job = NoJob THEN [srv EXCEPT !.last = Response(400, FALSE, NoJob, FALSE)]
  ELSE IF config.appId = "empty" \/ config.restKey = "empty"
       THEN [srv EXCEPT !.last = Response(500, FALSE, NoJob, FALSE)]
  ELSE LET entry == [op |-> "cancel", job |-> req.job, sendAfter |-> NoTime,
                     state |-> SubscriptionState, outcome |-> gw,
                     attempt |-> RequestsFor(srv.log, "cancel", req.job) + 1,
                     jobStatus |-> JobStatus(srv.jobs, req.job),
                     answered |-> CASE gw = "accepted" -> 200
                                    [] gw = "unreachable" -> 500
                                    [] OTHER -> 400]
           logged == srv.log \cup {entry}
       IN CASE gw = "accepted" ->
                 [jobs |-> {IF j.id = req.job /\ j.status = "Pending"
                            THEN [j EXCEPT !.status = "Cancelled"] ELSE j : j \in srv.jobs},
                  log |-> logged,
                  last |-> Response(entry.answered, TRUE, req.job, TRUE)]
            [] OTHER ->
                 [srv EXCEPT !.log = logged,
                             !.last = Response(entry.answered, FALSE, NoJob, TRUE)]

(***************************************************************************)
(* /api/reminders                                                          *)
(***************************************************************************)
\* what one schedule call of the reminders route runs into: the gateway's answers, or
\* the fetch of the schedule route itself throwing
CallOutcomes == GatewayOutcomes \cup {"apiDown"}

JobId(rowId, i) == <<rowId, i>>

\* the state threaded through the scheduling loop of POST and the cancelling loop of
\* DELETE: calls counts the fetches of the schedule route, failed tells that one of them
\* threw or was not answered with success
Scheduling(srv) ==
  [srv |-> srv, ids |-> <<>>, thrown |-> FALSE, calls |-> 0, failed |-> FALSE]

\* what the reminders route answered: jobs is the number of notification_ids the row
\* holds (POST) or held (DELETE), dbOk tells that the table operation went through;
\* the body is { success, reminder } or { error } and names no scheduling failure
ApiAnswer(op, id, status, jobs, st, dbOk) ==
  [op |-> op, id |-> id, status |-> status, jobs |-> jobs, calls |-> st.calls,
   cancelFailed |-> st.failed, dbOk |-> dbOk, warning |-> FALSE]
NoAnswer == ApiAnswer("none", 0, 0, 0, Scheduling(<<>>), TRUE)

\* for (const time of reminder.times) {...}, from index i on: a time on nextDate that is
\* still in the future is scheduled through the schedule route, and the id it answers
\* with is collected; a throwing fetch leaves the loop
RECURSIVE ScheduleTimes(_, _, _, _, _)
ScheduleTimes(st, r, rowId, i, outcomes) ==
  IF i > Len(r.times) \/ st.thrown THEN st
  ELSE LET notificationDate == AtTime(r.nextDate, r.times[i])
           req == [hasCookie |-> TRUE, user |-> SessionUser, hasFields |-> TRUE,
                   job |-> JobId(rowId, i), reminderId |-> rowId, time |-> r.times[i],
                   sendAfter |-> notificationDate]
           srv1 == SchedulePOST(st.srv, req, outcomes[i])
           st1 == IF notificationDate > clock
                  THEN IF outcomes[i] = "apiDown"
                       THEN [st EXCEPT !.thrown = TRUE, !.calls = @ + 1, !.failed = TRUE]
                       ELSE [st EXCEPT !.srv = srv1,
                                       !.calls = @ + 1,
                                       !.failed = @ \/ ~srv1.last.success,
                                       !.ids = IF srv1.last.success
                                                  /\ srv1.last.notificationId # NoJob
                                               THEN Append(@, srv1.last.notificationId)
                                               ELSE @]
                  ELSE st
       IN ScheduleTimes(st1, r, rowId, i + 1, outcomes)

\* POST /api/reminders: insert the row under a database-made id, schedule its times,
\* store the collected ids in notification_ids when there are any
RemindersPOST(c, outcomes, updateOk) ==
  LET rowId == DbId(c)
      st == ScheduleTimes(Scheduling(Server(remoteJobs, gatewayLog, lastResponse)),
                          Reminder(rowId), rowId, 1, outcomes)
      stored == IF ~st.thrown /\ Len(st.ids) > 0 /\ updateOk THEN st.ids ELSE <<>>
  IN /\ rows' = rows @@ (rowId :> stored)
     /\ remoteJobs' = st.srv.jobs
     /\ gatewayLog' = st.srv.log
     /\ lastResponse' = st.srv.last
     /\ apiResponse' = ApiAnswer("create", rowId, 200, Len(stored), st, TRUE)

\* for (const notificationId of notification_ids) await fetch(DELETE ...), from index i
\* on; a throwing fetch leaves the loop
RECURSIVE CancelJobs(_, _, _, _)
CancelJobs(st, ids, i, outcomes) ==
  IF i > Len(ids) \/ st.thrown THEN st
  ELSE LET req == [hasCookie |-> TRUE, job |-> ids[i]]
           srv1 == ScheduleDELETE(st.srv, req, outcomes[i])
           st1 == IF outcomes[i] = "apiDown"
                  THEN [st EXCEPT !.thrown = TRUE, !.calls = @ + 1, !.failed = TRUE]
                  ELSE [st EXCEPT !.srv = srv1, !.calls = @ + 1,
                                  !.failed = @ \/ ~srv1.last.success]
       IN CancelJobs(st1, ids, i + 1, outcomes)

\* a DELETE that gives up when a cancellation has failed
RemindersDELETEStopOnFailure(id, outcomes, deleteOk) ==
  LET ids == IF id \in DOMAIN rows THEN rows[id] ELSE <<>>
      st == CancelJobs(Scheduling(Server(remoteJobs, gatewayLog, lastResponse)),
                       ids, 1, outcomes)
      done == deleteOk /\ ~st.failed
  IN /\ rows' = IF done THEN [x \in DOMAIN rows \ {id} |-> rows[x]] ELSE rows
     /\ remoteJobs' = st.srv.jobs
     /\ gatewayLog' = st.srv.log
     /\ lastResponse' = st.srv.last
     /\ apiResponse' = ApiAnswer("delete", id, IF done THEN 200 ELSE 500, Len(ids), st,
                                 deleteOk)

\* DELETE /api/reminders?id=...: read the row's notification_ids, cancel each, delete
\* the row (no row matches an id the table does not hold); 500 when the delete fails
RemindersDELETE(id, outcomes, deleteOk) ==
  LET ids == IF id \in DOMAIN rows THEN rows[id] ELSE <<>>
      st == CancelJobs(Scheduling(Server(remoteJobs, gatewayLog, lastResponse)),
                       ids, 1, outcomes)
  IN /\ rows' = IF deleteOk THEN [x \in DOMAIN rows \ {id} |-> rows[x]] ELSE rows
     /\ remoteJobs' = st.srv.jobs
     /\ gatewayLog' = st.srv.log
     /\ lastResponse' = st.srv.last
     /\ apiResponse' = ApiAnswer("delete", id, IF deleteOk THEN 200 ELSE 500, Len(ids),
                                 st, deleteOk)

(***************************************************************************)
(* useReminders                                                            *)
(***************************************************************************)
\* addReminder(reminder): POST, then setReminders(prev => [reminder, ...prev]); a
\* failed insert answers 500 and leaves the list as it was
AddReminderWith(contents, outs) ==
  \E c \in contents :
    /\ hookPc # "mount"
    /\ DbId(c) \notin DOMAIN rows
    /\ \A i \in 1..Len(reminders) : ContentOf(reminders[i]) # c
    /\ \/ /\ \E outcomes \in [1..Len(Reminder(c).times) -> outs],
                  updateOk \in BOOLEAN :
               RemindersPOST(c, outcomes, updateOk)
          /\ reminders' = <<ClientId(c)>> \o reminders
          /\ RunEffect(reminders', notificationPermission, browserPermission)
       \/ /\ apiResponse' = ApiAnswer("create", DbId(c), 500, 0, Scheduling(<<>>), FALSE)
          /\ UNCHANGED <<rows, remoteJobs, gatewayLog, lastResponse, reminders>>
          /\ NoEffect
    /\ UNCHANGED <<browserPermission, notificationPermission, serviceWorkerReady, hookPc,
                   showOk, config, calendar, edgeRuns, scheduled,
                   pushDeliveries, timeVars, deviceVars, sdkVars>>

AddReminder == AddReminderWith(Contents, CallOutcomes)

\* removeReminder(id): DELETE, then setReminders(prev => prev.filter(r => r.id !== id));
\* a failed delete answers 500 and leaves the list as it was
RemoveReminderWith(outs) ==
  \E i \in 1..Len(reminders) :
    LET id == reminders[i]
        n == IF id \in DOMAIN rows THEN Len(rows[id]) ELSE 0
    IN /\ \/ /\ \E outcomes \in [1..n -> outs] : RemindersDELETE(id, outcomes, TRUE)
             /\ IF apiResponse'.status = 200
                THEN /\ reminders' = SelectSeq(reminders, LAMBDA x : x # id)
                     /\ RunEffect(reminders', notificationPermission, browserPermission)
                ELSE /\ UNCHANGED reminders
                     /\ NoEffect
          \/ /\ \E outcomes \in [1..n -> outs] : RemindersDELETE(id, outcomes, FALSE)
             /\ UNCHANGED reminders
             /\ NoEffect
       /\ UNCHANGED <<browserPermission, notificationPermission, serviceWorkerReady, hookPc,
                      showOk, config, calendar, edgeRuns, scheduled,
                   pushDeliveries, timeVars, deviceVars, sdkVars>>

RemoveReminder == RemoveReminderWith(CallOutcomes)

\* .order('next_date', { ascending: true }): the rows by next_date, then by row id
RECURSIVE SortedRows(_)
SortedRows(ids) ==
  IF ids = {} THEN <<>>
  ELSE LET first == CHOOSE x \in ids :
                      \A y \in ids :
                        \/ Reminder(x).nextDate < Reminder(y).nextDate
                        \/ Reminder(x).nextDate = Reminder(y).nextDate /\ x <= y
       IN <<first>> \o SortedRows(ids \ {first})

\* loadReminders(): GET /api/reminders, setReminders(transformedReminders); a failed
\* fetch leaves the list as it was
LoadReminders ==
  /\ hookPc # "mount"
  /\ \/ /\ reminders' = SortedRows(DOMAIN rows)
        /\ RunEffect(reminders', notificationPermission, browserPermission)
     \/ /\ UNCHANGED reminders
        /\ NoEffect
  /\ UNCHANGED <<browserPermission, notificationPermission, serviceWorkerReady, hookPc,
                 showOk, timeVars, deviceVars, serverVars, sdkVars>>

(***************************************************************************)
(* The gateway and the service worker's push handler                       *)
(***************************************************************************)
\* the gateway sends a pending job once its send_after has come; the push reaches the
\* device that is subscribed and linked to the user, where sw.js shows it
GatewaySends ==
  \E j \in remoteJobs :
    /\ j.status = "Pending"
    /\ j.sendAfter <= clock
    /\ remoteJobs' = (remoteJobs \ {j}) \cup {[j EXCEPT !.status = "Sent"]}
    /\ pushDeliveries' =
         IF SubscriptionState = "Linked"
         THEN pushDeliveries \cup {[job |-> j.id, reminderId |-> j.reminderId,
                                    time |-> j.time, at |-> clock]}
         ELSE pushDeliveries
    /\ UNCHANGED <<config, calendar, edgeRuns, scheduled, rows, gatewayLog, lastResponse, apiResponse, hookVars,
                   clockVars, deviceVars, sdkVars>>

(***************************************************************************)
(* The engine as the page runs it: hook, reminders API, gateway, clock      *)
(***************************************************************************)
NoResponse == Response(0, FALSE, NoJob, FALSE)

InitHook ==
  /\ clock \in StartClocks
  /\ steps = 0
  /\ jumps = 0
  /\ browserPermission \in Permissions
  /\ notificationPermission = "default"
  /\ serviceWorkerReady = FALSE
  /\ effectSwReady = FALSE
  /\ intervalActive = FALSE
  /\ intervals = {}
  /\ checkIntervalRef = 0
  /\ sinceTick = GapCap
  /\ notifiedReminders = {}
  /\ evictTimers = {}
  /\ deliveries = {}
  /\ reminders = <<>>
  /\ hookPc = "mount"
  /\ showOk = TRUE

\* the device may have subscribed and been linked in an earlier visit
InitDevice ==
  /\ hasToken \in BOOLEAN
  /\ linked \in BOOLEAN
  /\ linked => hasToken

InitServer ==
  /\ rows = <<>>
  /\ remoteJobs = {}
  /\ gatewayLog = {}
  /\ pushDeliveries = {}
  /\ lastResponse = NoResponse
  /\ apiResponse = NoAnswer
  /\ calendar = NoCalendar
  /\ edgeRuns = {}
  /\ scheduled = NoSchedule

InitSdk ==
  /\ isInitialized = FALSE
  /\ initPromise = 0
  /\ attempts = <<>>
  /\ callers = <<>>
  /\ sdkLog = {}

\* the page is open: the hook has mounted, read the permission and registered the
\* service worker; the list has not arrived yet
InitMountedAt(starts) ==
  /\ clock \in starts
  /\ steps = 0
  /\ jumps = 0
  /\ sinceTick = GapCap
  /\ browserPermission \in Permissions
  /\ notificationPermission = browserPermission
  /\ serviceWorkerReady = TRUE
  /\ effectSwReady = FALSE
  /\ intervalActive = FALSE
  /\ intervals = {}
  /\ checkIntervalRef = 0
  /\ notifiedReminders = {}
  /\ evictTimers = {}
  /\ deliveries = {}
  /\ reminders = <<>>
  /\ hookPc = "done"
  /\ showOk = TRUE

InitMounted == InitMountedAt(StartClocks)

InitPage ==
  /\ InitMounted
  /\ InitServer
  /\ InitSdk
  /\ config = [appId |-> "set", restKey |-> "set"]

Init ==
  /\ InitPage
  /\ hasToken = FALSE
  /\ linked = FALSE

Next ==
  \/ \E answer \in Permissions, ok \in BOOLEAN : RequestPermission(answer, ok)
  \/ SetReminders
  \/ Tick
  \/ EvictTimerFires
  \/ Advance
  \/ DayJump

Spec == Init /\ [][Next]_vars

(***************************************************************************)
(* Recurrence rules, as the calendar page evaluates them                   *)
(***************************************************************************)
\* IsDueOn: the rule of the calendar page in a zone without daylight saving
IsDueOn(r, date) == getRemindersForDate(r, date, NoDst)

\* the due timestamp an occurrence key stands for: the time-of-day on the key's date,
\* or the appointment's moment less the advance notice
DueTimestamp(key) ==
  IF key[2] = "appointment"
  THEN key[3] - Reminder(key[1]).reminderAdvance * SecondsPerHour
  ELSE AtTime(key[4], key[3])

\* the matcher has just run on the current list at the current time
MatcherJustRan == intervalActive /\ sinceTick = 0

Listed(id) == \E i \in 1..Len(reminders) : reminders[i] = id

(***************************************************************************)
(* Properties of the matcher                                               *)
(***************************************************************************)
\* C1: an occurrence key is delivered at most once within the 24 h retention window,
\* whatever ticks, immediate checks and ticker restarts happen: two deliveries of one
\* key lie at least 24 h apart.
C1_AtMostOneClaimPerKey ==
  \A d1, d2 \in deliveries :
    (d1.key = d2.key /\ d1 # d2) => Abs(d1.at - d2.at) >= RetentionSec

\* a key was delivered, and the matcher has run again later inside the key's match
\* window with the reminder still listed
C1_Witness ==
  \E d \in deliveries :
    /\ d.key = MedicationKey(ClientId(1), FormatTime(0, 0), clock)
    /\ d.at < clock
    /\ isTimeMatch(FormatTime(0, 0), CurrentTime(clock))
    /\ MatcherJustRan
    /\ Listed(ClientId(1))

\* C4: a medication reminder is delivered only on a date that is a due date of the
\* reminder under the recurrence rules (range and frequency).
C4_DeliveredOnlyOnDueDates ==
  \A d \in deliveries :
    d.key[2] = "time" => IsDueOn(Reminder(d.key[1]), DateOf(d.at))

\* C5: a timestamp is due now iff it is at most 60 s away from now: every delivery
\* happens within 60 s of its timestamp, and once the matcher has run, every listed
\* time-of-day within 60 s of now has been delivered.
C5_DueNowIffWithinTolerance ==
  /\ \A d \in deliveries : Abs(d.at - DueTimestamp(d.key)) <= OneMinuteSec
  /\ MatcherJustRan =>
       \A i \in 1..Len(reminders) :
         LET r == Reminder(reminders[i])
         IN r.type = "medication" =>
              \A j \in 1..Len(r.times), date \in {DateOf(clock) - 1, DateOf(clock), DateOf(clock) + 1} :
                (IsDueOn(r, date) /\ Abs(clock - AtTime(date, r.times[j])) <= OneMinuteSec)
                  => \E d \in deliveries :
                       d.key[1] = r.id /\ DueTimestamp(d.key) = AtTime(date, r.times[j])

\* C6: the key is recorded in the dedup store before any delivery side effect of its
\* occurrence: every delivery was triggered with its key already recorded.
C6_RecordPrecedesDelivery ==
  \A d \in deliveries : d.claimedBefore

(***************************************************************************)
(* The OneSignal module (initOneSignal, ensureSubscribed,                  *)
(* setExternalUserId) and the flows that call it                           *)
(***************************************************************************)
\* how many flows run in one behaviour
MaxCallers == 2

\* OneSignalInit.initialize, the Enable button of the permission toast, a direct call
\* of setExternalUserId, the same of the older module, the test page's button
FlowKinds == {"initialize", "enable", "link", "linkLegacy", "testPage"}

\* the function a flow enters first
FirstCall(kind) ==
  CASE kind = "initialize" -> "initOneSignal"
    [] kind = "initializeNoUser" -> "initOneSignal"
    [] kind = "enable" -> "ensureSubscribed"
    [] kind = "link" -> "setExternalUserId"
    [] kind = "linkLegacy" -> "setExternalUserIdLegacy"
    [] OTHER -> "setExternalId"

\* what ensureSubscribed last answered in a flow, with the permission it ran under and
\* whether it had waited for the subscription
NoReport == [made |-> FALSE, subscribed |-> FALSE, permission |-> "default",
             initialized |-> FALSE, waited |-> FALSE]

\* a flow: runs counts the runs of initialize, retryCount is the component's state
Caller(kind, fn, pc, attempt, out) ==
  [kind |-> kind, fn |-> fn, pc |-> pc, attempt |-> attempt, out |-> out,
   report |-> NoReport, runs |-> 1, retryCount |-> 0]

\* a call made to the push SDK
SdkCall(call, by, attempt, hadToken) ==
  [call |-> call, by |-> by, attempt |-> attempt, hadToken |-> hadToken]

\* the module state threaded through one call of initOneSignal; awaited is the attempt
\* whose promise the call returns (0: it returns at once)
Sdk(init, promise, atts, log) ==
  [isInitialized |-> init, initPromise |-> promise, attempts |-> atts, log |-> log,
   awaited |-> 0]

\* initOneSignal() without the cached-promise check: a call that finds an attempt in
\* progress starts another one
initOneSignalNoPromiseCheck(sdk) ==
  IF sdk.isInitialized THEN sdk
  ELSE LET a == Len(sdk.attempts) + 1
       IN [sdk EXCEPT !.attempts = Append(@, "running"),
                      !.initPromise = a, !.awaited = a,
                      !.log = @ \cup {SdkCall("init", 0, a, hasToken)}]

\* initOneSignal(): return when initialized; return the cached promise when one is set;
\* otherwise start an attempt, which invokes OneSignalReact.init unless the app id is
\* not configured
initOneSignal(sdk) ==
  IF sdk.isInitialized THEN sdk
  ELSE IF sdk.initPromise # 0 THEN [sdk EXCEPT !.awaited = sdk.initPromise]
  ELSE LET a == Len(sdk.attempts) + 1
       IN IF config.appId # "set"
          THEN [sdk EXCEPT !.attempts = Append(@, "skipped"),
                           !.initPromise = a, !.awaited = a]
          ELSE [sdk EXCEPT !.attempts = Append(@, "running"),
                           !.initPromise = a, !.awaited = a,
                           !.log = @ \cup {SdkCall("init", 0, a, hasToken)}]

\* the flow ends
Finished(c, out) == [c EXCEPT !.pc = "done", !.out = out]

\* the callers of ensureSubscribed() without their if (subscribed && playerId): the
\* user id is linked whatever ensureSubscribed answered
EnsureReturnedLinkAlways(c, subscribed) ==
  [c EXCEPT !.fn = "setExternalUserId", !.pc = "enter",
            !.report = [made |-> TRUE, subscribed |-> subscribed,
                        permission |-> browserPermission,
                        initialized |-> isInitialized, waited |-> c.pc = "settle"]]

\* ensureSubscribed() has returned to initialize or to the Enable handler:
\* if (subscribed && playerId) await setExternalUserId(userId), else no link
EnsureReturned(c, subscribed) ==
  LET r == [made |-> TRUE, subscribed |-> subscribed, permission |-> browserPermission,
            initialized |-> isInitialized, waited |-> c.pc = "settle"]
  IN IF subscribed
     THEN [c EXCEPT !.fn = "setExternalUserId", !.pc = "enter", !.report = r]
     ELSE [Finished(c, "notSubscribed") EXCEPT !.report = r]

\* the awaited initialization was rejected: ensureSubscribed catches and answers
\* {subscribed: false}; setExternalUserId rethrows; the older setExternalUserId only
\* logs; initialize only logs
InitRejected(c) ==
  CASE c.fn = "ensureSubscribed" -> EnsureReturned(c, FALSE)
    [] c.fn = "setExternalUserId" -> Finished(c, "threw")
    [] c.fn = "setExternalUserIdLegacy" -> Finished(c, "returned")
    [] OTHER -> Finished(c, "initFailed")

\* a button is pressed or a component mounts: a flow starts
StartFlowOf(kinds, limit) ==
  \E kind \in kinds :
    /\ Len(callers) < limit
    /\ callers' = Append(callers, Caller(kind, FirstCall(kind), "enter", 0, "running"))
    /\ UNCHANGED <<isInitialized, initPromise, attempts, sdkLog, browserPermission,
                   matcherVars, clockVars, deviceVars, serverVars>>

StartFlow == StartFlowOf(FlowKinds, MaxCallers)

\* initOneSignal() is called: by initialize directly, by the other functions under
\* if (!isInitialized)
EnterCall(p) ==
  /\ callers[p].pc = "enter"
  /\ callers[p].fn # "setExternalId"
  /\ LET sdk == initOneSignal(Sdk(isInitialized, initPromise, attempts, sdkLog))
     IN /\ isInitialized' = sdk.isInitialized
        /\ initPromise' = sdk.initPromise
        /\ attempts' = sdk.attempts
        /\ sdkLog' = sdk.log
        /\ callers' = [callers EXCEPT ![p].pc = IF sdk.awaited = 0 THEN "body"
                                                ELSE "awaitInit",
                                      ![p].attempt = sdk.awaited]
  /\ UNCHANGED <<browserPermission, matcherVars, clockVars, deviceVars, serverVars>>

\* the catch block without initPromise = null
SdkInitSettlesKeepsPromise ==
  \E a \in DOMAIN attempts, ok \in BOOLEAN :
    /\ attempts[a] = "running"
    /\ attempts' = [attempts EXCEPT ![a] = IF ok THEN "ok" ELSE "failed"]
    /\ isInitialized' = ok
    /\ UNCHANGED <<initPromise, callers, sdkLog, browserPermission, matcherVars, clockVars,
                   deviceVars, serverVars>>

\* OneSignalReact.init settles: isInitialized = true, or the catch block's
\* isInitialized = false; initPromise = null; throw
SdkInitSettles ==
  \E a \in DOMAIN attempts, ok \in BOOLEAN :
    /\ attempts[a] = "running"
    /\ attempts' = [attempts EXCEPT ![a] = IF ok THEN "ok" ELSE "failed"]
    /\ isInitialized' = ok
    /\ initPromise' = IF ok THEN initPromise ELSE 0
    /\ UNCHANGED <<callers, sdkLog, browserPermission, matcherVars, clockVars, deviceVars,
                   serverVars>>

\* a caller's await of the initialization promise returns or throws
InitAwaited(p) ==
  /\ callers[p].pc = "awaitInit"
  /\ attempts[callers[p].attempt] # "running"
  /\ callers' = [callers EXCEPT ![p] = IF attempts[@.attempt] = "failed"
                                       THEN InitRejected(@)
                                       ELSE [@ EXCEPT !.pc = "body"]]
  /\ UNCHANGED <<isInitialized, initPromise, attempts, sdkLog, browserPermission,
                 matcherVars, clockVars, deviceVars, serverVars>>

\* initialize, after initOneSignal and the 1 s wait, with a user id in the session:
\* await ensureSubscribed()
InitializeContinues(p) ==
  /\ callers[p].pc = "body"
  /\ callers[p].fn = "initOneSignal"
  /\ callers[p].kind = "initialize"
  /\ callers' = [callers EXCEPT ![p].fn = "ensureSubscribed", ![p].pc = "enter"]
  /\ UNCHANGED <<isInitialized, initPromise, attempts, sdkLog, browserPermission,
                 matcherVars, clockVars, deviceVars, serverVars>>

\* ensureSubscribed(), up to its first wait: subscribed when a player id exists; with
\* the permission not granted, Notifications.requestPermission() is called
ensureSubscribed(p) ==
  /\ callers[p].pc = "body"
  /\ callers[p].fn = "ensureSubscribed"
  /\ IF hasToken
     THEN /\ callers' = [callers EXCEPT ![p] = EnsureReturned(@, TRUE)]
          /\ UNCHANGED sdkLog
     ELSE IF browserPermission = "granted"
     THEN /\ callers' = [callers EXCEPT ![p] = EnsureReturned(@, FALSE)]
          /\ UNCHANGED sdkLog
     ELSE /\ callers' = [callers EXCEPT ![p].pc = "prompt"]
          /\ sdkLog' = sdkLog \cup {SdkCall("requestPermission", p, 0, hasToken)}
  /\ UNCHANGED <<isInitialized, initPromise, attempts, browserPermission, matcherVars,
                 clockVars, deviceVars, serverVars>>

\* requestPermission() resolves: with the user's answer while the permission is still
\* 'default', with the stored permission otherwise; not granted ends ensureSubscribed
PermissionAnswered(p) ==
  \E answer \in Permissions :
    LET newPermission == IF browserPermission = "default" THEN answer
                         ELSE browserPermission
    IN /\ callers[p].pc = "prompt"
       /\ browserPermission' = newPermission
       /\ callers' = [callers EXCEPT ![p] = IF newPermission = "granted"
                                            THEN [@ EXCEPT !.pc = "settle"]
                                            ELSE EnsureReturned(@, FALSE)]
       /\ UNCHANGED <<isInitialized, initPromise, attempts, sdkLog, matcherVars, clockVars,
                      deviceVars, serverVars>>

\* the push SDK, initialized and permitted, registers the device and gets its token
DeviceRegisters ==
  /\ isInitialized
  /\ browserPermission = "granted"
  /\ ~hasToken
  /\ hasToken' = TRUE
  /\ UNCHANGED <<linked, sdkVars, browserPermission, matcherVars, clockVars, serverVars>>

\* ensureSubscribed(), after its 2 s wait: playerId = await PushSubscription.id
SubscriptionSettles(p) ==
  /\ callers[p].pc = "settle"
  /\ callers' = [callers EXCEPT ![p] = EnsureReturned(@, hasToken)]
  /\ UNCHANGED <<isInitialized, initPromise, attempts, sdkLog, browserPermission,
                 matcherVars, clockVars, deviceVars, serverVars>>

\* setExternalUserId(userId): throws without a player id, else OneSignalReact.login;
\* a failing login is rethrown
setExternalUserId(p) ==
  /\ callers[p].pc = "body"
  /\ callers[p].fn = "setExternalUserId"
  /\ IF ~hasToken
     THEN /\ callers' = [callers EXCEPT ![p] = Finished(@, "threw")]
          /\ UNCHANGED <<sdkLog, linked>>
     ELSE \E ok \in BOOLEAN :
            /\ sdkLog' = sdkLog \cup {SdkCall("login", p, 0, hasToken)}
            /\ linked' = (linked \/ ok)
            /\ callers' = [callers EXCEPT ![p] = Finished(@, IF ok THEN "linked"
                                                             ELSE "threw")]
  /\ UNCHANGED <<hasToken, isInitialized, initPromise, attempts, browserPermission,
                 matcherVars, clockVars, serverVars>>

\* setExternalUserId(userId) of the older module: OneSignalReact.login whatever the
\* subscription; a failing login is logged and the call returns
setExternalUserIdLegacy(p) ==
  /\ callers[p].pc = "body"
  /\ callers[p].fn = "setExternalUserIdLegacy"
  /\ \E ok \in BOOLEAN :
       /\ sdkLog' = sdkLog \cup {SdkCall("login", p, 0, hasToken)}
       /\ linked' = (linked \/ ok)
       /\ callers' = [callers EXCEPT ![p] = Finished(@, "returned")]
  /\ UNCHANGED <<hasToken, isInitialized, initPromise, attempts, browserPermission,
                 matcherVars, clockVars, serverVars>>

\* the test page's setExternalId: OneSignal.login(userId) on the loaded SDK; a failing
\* login shows an error toast
setExternalId(p) ==
  /\ callers[p].pc = "enter"
  /\ callers[p].fn = "setExternalId"
  /\ \E ok \in BOOLEAN :
       /\ sdkLog' = sdkLog \cup {SdkCall("login", p, 0, hasToken)}
       /\ linked' = (linked \/ ok)
       /\ callers' = [callers EXCEPT ![p] = Finished(@, IF ok THEN "linked"
                                                        ELSE "failed")]
  /\ UNCHANGED <<hasToken, isInitialized, initPromise, attempts, browserPermission,
                 matcherVars, clockVars, serverVars>>

InitSubscription ==
  /\ InitPage
  /\ InitDevice
  /\ hasToken => browserPermission = "granted"

NextSubscription ==
  \/ StartFlow
  \/ SdkInitSettles
  \/ DeviceRegisters
  \/ \E p \in DOMAIN callers : EnterCall(p)
  \/ \E p \in DOMAIN callers : InitAwaited(p)
  \/ \E p \in DOMAIN callers : InitializeContinues(p)
  \/ \E p \in DOMAIN callers : ensureSubscribed(p)
  \/ \E p \in DOMAIN callers : PermissionAnswered(p)
  \/ \E p \in DOMAIN callers : SubscriptionSettles(p)
  \/ \E p \in DOMAIN callers : setExternalUserId(p)
  \/ \E p \in DOMAIN callers : setExternalUserIdLegacy(p)
  \/ \E p \in DOMAIN callers : setExternalId(p)

SpecSubscription == InitSubscription /\ [][NextSubscription]_vars

(***************************************************************************)
(* Properties of the OneSignal module                                      *)
(***************************************************************************)
InitCalls == {e \in sdkLog : e.call = "init"}
RunningAttempts == {a \in DOMAIN attempts : attempts[a] = "running"}
PromptsPending == {p \in DOMAIN callers : callers[p].pc = "prompt"}

\* C7: initialization is single-flight and idempotent: at most one attempt runs at a
\* time, every caller waiting on a running attempt waits on the one cached attempt,
\* the SDK's init is invoked again only after every earlier attempt has failed, and
\* so at most once while no attempt has failed.
C7_InitSingleFlight ==
  /\ Cardinality(RunningAttempts) <= 1
  /\ \A p \in DOMAIN callers :
       (callers[p].pc = "awaitInit" /\ callers[p].attempt \in RunningAttempts)
         => callers[p].attempt = initPromise
  /\ \A e \in InitCalls : \A b \in 1..(e.attempt - 1) : attempts[b] = "failed"
  /\ (\A a \in DOMAIN attempts : attempts[a] # "failed") => Cardinality(InitCalls) <= 1

\* two callers wait on the same running attempt
C7_Witness ==
  \E p, q \in DOMAIN callers :
    /\ p # q
    /\ callers[p].pc = "awaitInit"
    /\ callers[q].pc = "awaitInit"
    /\ callers[p].attempt = callers[q].attempt
    /\ callers[p].attempt \in RunningAttempts

\* C8: concurrent subscription requests for the device raise one permission prompt:
\* while the permission is undecided, at most one requestPermission() call is pending.
C8_OnePromptForConcurrentRequests ==
  browserPermission = "default" => Cardinality(PromptsPending) <= 1

\* C9: an external user id is linked only when a device token exists: no login is made
\* against the push SDK while the device has no token.
C9_LinkOnlyWithDeviceToken ==
  \A e \in sdkLog : e.call = "login" => e.hadToken

(***************************************************************************)
(* Requests to /api/notifications/schedule, in every subscription state     *)
(***************************************************************************)
\* how many requests reach the gateway in one behaviour
MaxRequests == 2

ScheduleRequests == {e \in gatewayLog : e.op = "schedule"}

\* a POST arrives, with or without the session cookie and the required fields; its job
\* takes the id the gateway would give it
ScheduleRequest ==
  \E hasCookie \in BOOLEAN, hasFields \in BOOLEAN, gw \in GatewayOutcomes :
    LET n == Cardinality(ScheduleRequests) + 1
        req == [hasCookie |-> hasCookie, user |-> SessionUser, hasFields |-> hasFields,
                job |-> JobId(0, n), reminderId |-> 0, time |-> FormatTime(0, 0),
                sendAfter |-> AtTime(StartDay + 1, FormatTime(0, 0))]
        srv == SchedulePOST(Server(remoteJobs, gatewayLog, lastResponse), req, gw)
    IN /\ Cardinality(gatewayLog) < MaxRequests
       /\ remoteJobs' = srv.jobs
       /\ gatewayLog' = srv.log
       /\ lastResponse' = srv.last
       /\ UNCHANGED <<config, calendar, edgeRuns, scheduled, rows, pushDeliveries, apiResponse, hookVars, clockVars,
                      deviceVars, sdkVars>>

\* a DELETE arrives for a job the gateway holds, or without an id
CancelRequest ==
  \E hasCookie \in BOOLEAN, job \in {j.id : j \in remoteJobs} \cup {NoJob},
     gw \in GatewayOutcomes :
    LET req == [hasCookie |-> hasCookie, job |-> job]
        srv == ScheduleDELETE(Server(remoteJobs, gatewayLog, lastResponse), req, gw)
    IN /\ Cardinality(gatewayLog) < MaxRequests
       /\ remoteJobs # {}
       /\ remoteJobs' = srv.jobs
       /\ gatewayLog' = srv.log
       /\ lastResponse' = srv.last
       /\ UNCHANGED <<config, calendar, edgeRuns, scheduled, rows, pushDeliveries, apiResponse, hookVars, clockVars,
                      deviceVars, sdkVars>>

\* the user presses Enable once
StartEnable == StartFlowOf({"enable"}, 1)

NextGateway ==
  \/ ScheduleRequest
  \/ CancelRequest
  \/ StartEnable
  \/ SdkInitSettles
  \/ DeviceRegisters
  \/ \E p \in DOMAIN callers : EnterCall(p)
  \/ \E p \in DOMAIN callers : InitAwaited(p)
  \/ \E p \in DOMAIN callers : ensureSubscribed(p)
  \/ \E p \in DOMAIN callers : PermissionAnswered(p)
  \/ \E p \in DOMAIN callers : SubscriptionSettles(p)
  \/ \E p \in DOMAIN callers : setExternalUserId(p)

SpecGateway == InitSubscription /\ [][NextGateway]_vars

\* C10: a schedule request is sent to the gateway only while the subscription is
\* Linked; in every other state the request is refused and nothing reaches the gateway.
C10_ScheduleRequiresLinked ==
  \A e \in ScheduleRequests : e.state = "Linked"

(***************************************************************************)
(* The matcher under regular ticking: the list arrives once, a check runs  *)
(* at least every 60 s                                                     *)
(***************************************************************************)
RegularStart == AtTime(StartDay, FormatTime(23, 58))

InitRegular ==
  /\ InitMountedAt({RegularStart})
  /\ browserPermission = "granted"
  /\ InitServer
  /\ InitSdk
  /\ config = [appId |-> "set", restKey |-> "set"]
  /\ hasToken = FALSE
  /\ linked = FALSE

\* the page's list arrives
ListArrives ==
  /\ reminders = <<>>
  /\ SetRemindersTo(ReminderLists \ {<<>>})

\* time passes only while the last check is less than a tolerance old
AdvanceRegular ==
  /\ sinceTick + CheckIntervalSec <= OneMinuteSec
  /\ Advance

NextRegular ==
  \/ ListArrives
  \/ UserSetsPermission
  \/ Tick
  \/ AdvanceRegular

SpecRegular == InitRegular /\ [][NextRegular]_vars

\* the due timestamps of a reminder on a date: its times-of-day on a due date, or the
\* advance notice of its appointment
DueTimestampsOn(r, date) ==
  IF r.type = "appointment"
  THEN {ts \in {AtTime(r.appointmentDate, r.times[1]) - r.reminderAdvance * SecondsPerHour} :
          DateOf(ts) = date}
  ELSE {AtTime(date, r.times[j]) : j \in {k \in 1..Len(r.times) : IsDueOn(r, date)}}

DeliveriesOf(id, ts) == {d \in deliveries : d.key[1] = id /\ DueTimestamp(d.key) = ts}

NormalOutcomes == {"accepted", "rejected"}
\* the reminders the user creates: the daily and the weekly medication
DeliveryContents == {1, 2}

NextDelivery ==
  \/ AddReminderWith(DeliveryContents, NormalOutcomes)
  \/ GatewaySends
  \/ Tick
  \/ Advance

\* the permission is granted; the device is subscribed and linked, or not subscribed
InitDelivery ==
  /\ InitPage
  /\ browserPermission = "granted"
  /\ hasToken \in BOOLEAN
  /\ linked = hasToken

SpecDelivery == InitDelivery /\ [][NextDelivery]_vars

\* C2: an occurrence is delivered through one channel only: no time-of-day of a
\* reminder is both pushed by the gateway and delivered by the local matcher on the
\* same date.
C2_OneChannelPerOccurrence ==
  \A d \in deliveries, q \in pushDeliveries :
    ~ /\ d.key[2] = "time"
      /\ ContentOf(d.key[1]) = ContentOf(q.reminderId)
      /\ d.key[3] = q.time
      /\ DateOf(d.at) = DateOf(q.at)

(***************************************************************************)
(* The local path while the device is not linked: the page is open with    *)
(* the list loaded, in every permission state, and timers fire on time     *)
(***************************************************************************)
InitLocal ==
  /\ InitMountedAt({RegularStart})
  /\ InitServer
  /\ InitSdk
  /\ config = [appId |-> "set", restKey |-> "set"]
  /\ hasToken = FALSE
  /\ linked = FALSE

\* the user presses Enable and answers the permission prompt
AnswerPrompt ==
  \E answer \in Permissions, ok \in BOOLEAN : RequestPermission(answer, ok)

\* time passes once the list is there; a running interval fires on time
AdvanceLocal ==
  /\ reminders # <<>>
  /\ intervalActive => sinceTick + CheckIntervalSec <= OneMinuteSec
  /\ Advance

NextLocal ==
  \/ ListArrives
  \/ AnswerPrompt
  \/ Tick
  \/ AdvanceLocal

SpecLocal == InitLocal /\ [][NextLocal]_vars

\* C11: an occurrence that comes due while the subscription is in any state other than
\* Linked, Denied included, is still matched, claimed and delivered on the local path:
\* once its tolerance window has passed with its reminder listed, a delivery of it with
\* the audible cue exists and its key is claimed.
C11_LocalDeliveryWhenNotLinked ==
  SubscriptionState # "Linked" =>
    \A i \in 1..Len(reminders), date \in {DateOf(clock) - 1, DateOf(clock)} :
      \A ts \in DueTimestampsOn(Reminder(reminders[i]), date) :
        (ts - OneMinuteSec >= RegularStart /\ ts + OneMinuteSec <= clock)
          => \E d \in DeliveriesOf(reminders[i], ts) :
               d.sound /\ d.key \in notifiedReminders

(***************************************************************************)
(* The reminders route and the gateway: reminders are created, listed and  *)
(* deleted while the gateway accepts, rejects, or cannot be reached        *)
(***************************************************************************)
\* how many requests reach the gateway in one behaviour of the reminders route
MaxLogged == 3

\* the medication reminder with two times and the appointment
RouteContents == {1, 3}

\* cancelNotification(notificationId) of the OneSignal module: DELETE at the gateway,
\* response.ok is the result, false when the fetch throws
cancelNotification(srv, job, gw) ==
  LET entry == [op |-> "cancel", job |-> job, sendAfter |-> NoTime,
                state |-> SubscriptionState, outcome |-> gw,
                attempt |-> RequestsFor(srv.log, "cancel", job) + 1,
                jobStatus |-> JobStatus(srv.jobs, job),
                answered |-> CASE gw = "accepted" -> 200
                               [] gw = "unreachable" -> 500
                               [] OTHER -> 400]
  IN [jobs |-> IF gw = "accepted"
               THEN {IF j.id = job /\ j.status = "Pending"
                     THEN [j EXCEPT !.status = "Cancelled"] ELSE j : j \in srv.jobs}
               ELSE srv.jobs,
      log |-> srv.log \cup {entry},
      last |-> Response(entry.answered, gw = "accepted", job, TRUE)]

InitReminders ==
  /\ InitPage
  /\ browserPermission = "default"
  /\ hasToken = FALSE
  /\ linked = FALSE

\* the database gives every new row a fresh id: a reminder whose row id the gateway
\* has seen is not created again
FreshRow(c) == \A e \in gatewayLog : e.job[1] # DbId(c)

CreateReminder ==
  \E c \in RouteContents :
    /\ Cardinality(gatewayLog) < MaxLogged
    /\ FreshRow(c)
    /\ AddReminderWith({c}, CallOutcomes)

DeleteReminder ==
  /\ Cardinality(gatewayLog) < MaxLogged
  /\ RemoveReminder

\* a job the gateway holds is cancelled through the module or through the schedule route
CancelJob ==
  \E j \in remoteJobs, gw \in GatewayOutcomes, direct \in BOOLEAN :
    LET srv0 == Server(remoteJobs, gatewayLog, lastResponse)
        srv == IF direct THEN cancelNotification(srv0, j.id, gw)
               ELSE ScheduleDELETE(srv0, [hasCookie |-> TRUE, job |-> j.id], gw)
    IN /\ Cardinality(gatewayLog) < MaxLogged
       /\ remoteJobs' = srv.jobs
       /\ gatewayLog' = srv.log
       /\ lastResponse' = srv.last
       /\ UNCHANGED <<config, calendar, edgeRuns, scheduled, rows, pushDeliveries, apiResponse, hookVars, clockVars,
                      deviceVars, sdkVars>>

\* how many check intervals pass in one behaviour of the reminders route
MaxWait == 2

\* time passes until the first jobs are due at the gateway
Wait ==
  /\ steps < MaxWait
  /\ Advance

NextReminders ==
  \/ CreateReminder
  \/ DeleteReminder
  \/ LoadReminders

SpecReminders == InitReminders /\ [][NextReminders]_vars

\* reminders are created with the gateway answering, and their jobs are cancelled
\* before and after the gateway has sent them
CreateScheduled ==
  \E c \in RouteContents :
    /\ Cardinality(gatewayLog) < MaxLogged
    /\ FreshRow(c)
    /\ AddReminderWith({c}, NormalOutcomes)

NextCancel ==
  \/ CreateScheduled
  \/ CancelJob
  \/ GatewaySends
  \/ Wait

SpecCancel == InitReminders /\ [][NextCancel]_vars

\* C12: a schedule request that ends in a transient gateway error is retried, with
\* three attempts at most: an attempt before the third that could not reach the gateway
\* is followed by a further attempt for the same job, and no job has a fourth.
C12_TransientErrorRetried ==
  \A e \in ScheduleRequests :
    /\ e.attempt <= 3
    /\ (e.outcome = "unreachable" /\ e.attempt < 3)
         => \E f \in ScheduleRequests : f.job = e.job /\ f.attempt = e.attempt + 1

\* C13: cancel is idempotent: a cancel request for a job that is already cancelled or
\* already sent, and that the gateway answers, yields a successful result, never an
\* error.
C13_CancelIdempotent ==
  \A e \in gatewayLog :
    (e.op = "cancel" /\ e.jobStatus \in {"Cancelled", "Sent"} /\ e.outcome # "unreachable")
      => e.answered = 200

\* C14: deleting a reminder issues a cancel request for every job recorded with it: for
\* k recorded jobs k cancel requests are attempted, also when an earlier one fails.
C14_CancelForEveryRecordedJob ==
  apiResponse.op = "delete" => apiResponse.calls = apiResponse.jobs

\* C15: the gateway never blocks the deletion of a reminder: when a cancel request has
\* failed and the table operation goes through, the row is deleted, the route answers
\* success and the reminder leaves the list.
C15_DeletionNotBlockedByGateway ==
  (apiResponse.op = "delete" /\ apiResponse.cancelFailed /\ apiResponse.dbOk)
    => /\ apiResponse.status = 200
       /\ apiResponse.id \notin DOMAIN rows
       /\ ~Listed(apiResponse.id)

\* a reminder with two recorded jobs has been deleted although the gateway could not be
\* reached for a cancel request
C15_Witness ==
  /\ apiResponse.op = "delete"
  /\ apiResponse.jobs = 2
  /\ apiResponse.cancelFailed
  /\ apiResponse.status = 200
  /\ apiResponse.id \notin DOMAIN rows
  /\ \E e \in gatewayLog :
       e.op = "cancel" /\ e.job[1] = apiResponse.id /\ e.outcome = "unreachable"

\* C16: every job the gateway accepted for a reminder is recorded with the reminder: no
\* accepted, still pending job of an existing reminder is missing from its row.
C16_AcceptedJobsRecorded ==
  \A j \in remoteJobs :
    (j.status = "Pending" /\ j.reminderId \in DOMAIN rows)
      => \E i \in 1..Len(rows[j.reminderId]) : rows[j.reminderId][i] = j.id

(***************************************************************************)
(* The matcher under faults: a row without times in the list, the platform *)
(* notification failing, the permission revoked while the page is open     *)
(***************************************************************************)
\* the medication reminder alone, and with the appointment that has no times before
\* and after it
FaultLists == {<<ClientId(1)>>, <<ClientId(4), ClientId(1)>>, <<ClientId(1), ClientId(4)>>}

FaultyListArrives ==
  /\ reminders = <<>>
  /\ SetRemindersTo(FaultLists)

\* registration.showNotification() and the fallback start or stop failing
PlatformChanges ==
  /\ showOk' = ~showOk
  /\ UNCHANGED <<browserPermission, notificationPermission, serviceWorkerReady,
                 effectSwReady, intervalActive, intervals, checkIntervalRef,
                 notifiedReminders, evictTimers, deliveries,
                 reminders, hookPc, clockVars, deviceVars, serverVars, sdkVars>>

NextFaults ==
  \/ FaultyListArrives
  \/ PlatformChanges
  \/ UserSetsPermission
  \/ Tick
  \/ AdvanceRegular

SpecFaults == InitRegular /\ [][NextFaults]_vars

\* C17: a failure while one reminder is processed in a tick is isolated: when the
\* matcher has run, every time-of-day of every listed medication reminder that matches
\* now has been checked and claimed in that run, whatever else is in the list.
C17_FailureIsolatedPerReminder ==
  MatcherJustRan =>
    \A i \in 1..Len(reminders) :
      LET r == Reminder(reminders[i])
      IN r.type = "medication" =>
           \A j \in 1..Len(r.times) :
             isTimeMatch(r.times[j], CurrentTime(clock))
               => MedicationKey(r.id, r.times[j], clock) \in notifiedReminders

\* C19: a local delivery whose platform notification failed or was skipped is never
\* queued again: its key is claimed and the key has no other delivery.
C19_FailedDeliveryNotRetried ==
  \A d \in deliveries :
    d.platform # "shown" =>
      /\ d.key \in notifiedReminders
      /\ \A e \in deliveries : e.key = d.key => e = d

\* the platform notification of a delivery failed, and the matcher has run again later
\* inside the window of the same occurrence with the reminder still listed
C19_Witness ==
  \E d \in deliveries :
    /\ d.platform = "failed"
    /\ d.key[2] = "time"
    /\ d.at < clock
    /\ d.key = MedicationKey(d.key[1], d.key[3], clock)
    /\ isTimeMatch(d.key[3], CurrentTime(clock))
    /\ Listed(d.key[1])
    /\ MatcherJustRan

\* C18: a claimed key stays claimed until its 24 h eviction and no other operation
\* removes it earlier: the key of every delivery is in the notified set for the 24 h
\* after the delivery, through list changes, permission changes, ticks and a day of
\* sleep.
C18_ClaimKeptUntilEviction ==
  \A d \in deliveries : clock < d.at + RetentionSec => d.key \in notifiedReminders

\* a key was claimed, time has passed, its reminder has left the list and the matcher
\* runs on another list: the key is still claimed
C18_Witness ==
  \E d \in deliveries :
    /\ d.at < clock
    /\ clock < d.at + RetentionSec
    /\ ~Listed(d.key[1])
    /\ MatcherJustRan
    /\ d.key \in notifiedReminders

(***************************************************************************)
(* Appointments under regular ticking, across the appointment's moment     *)
(***************************************************************************)
\* the appointment at 00:00, alone, and after the appointment at 01:00
AppointmentLists == {<<ClientId(5)>>, <<ClientId(3), ClientId(5)>>}

AppointmentsArrive ==
  /\ reminders = <<>>
  /\ SetRemindersTo(AppointmentLists)

NextAppointment ==
  \/ AppointmentsArrive
  \/ PlatformChanges
  \/ UserSetsPermission
  \/ Tick
  \/ AdvanceRegular

SpecAppointment == InitRegular /\ [][NextAppointment]_vars

\* appointmentDate.setHours(hours, minutes, 0, 0)
AppointmentMoment(r) == AtTime(r.appointmentDate, r.times[1])

\* C20: an appointment has two occurrences, the advance notice at its moment less the
\* advance and the moment itself, each delivered once: when the tolerance window of
\* either has passed with the appointment listed, exactly one delivery of the
\* appointment lies within the tolerance of it.
C20_AppointmentTwoOccurrences ==
  \A i \in 1..Len(reminders) :
    LET r == Reminder(reminders[i])
    IN r.type = "appointment" =>
         \A ts \in {AppointmentMoment(r) - r.reminderAdvance * SecondsPerHour,
                     AppointmentMoment(r)} :
           (ts - OneMinuteSec >= RegularStart /\ ts + OneMinuteSec <= clock)
             => Cardinality({d \in deliveries :
                               d.key[1] = r.id /\ Abs(d.at - ts) <= OneMinuteSec}) = 1

(***************************************************************************)
(* The calendar page: a reminder of the list, the browser's time zone, and *)
(* the dates the user selects                                              *)
(***************************************************************************)
\* the last date the user selects: 2024-05-31
LastDate == 151

\* start dates 2024-01-01, 2024-01-31, 2024-03-04; no end date, or 2024-04-10,
\* 2024-05-05
CalendarReminders ==
  [frequency : {"daily", "weekly", "monthly"},
   startDate : {0, 30, 63},
   endDate : {NoDate, 100, 125}]

InitCalendar ==
  /\ InitMounted
  /\ config = [appId |-> "set", restKey |-> "set"]
  /\ rows = <<>>
  /\ remoteJobs = {}
  /\ gatewayLog = {}
  /\ pushDeliveries = {}
  /\ lastResponse = NoResponse
  /\ apiResponse = NoAnswer
  /\ edgeRuns = {}
  /\ scheduled = NoSchedule
  /\ InitSdk
  /\ hasToken = FALSE
  /\ linked = FALSE
  /\ browserPermission = "default"
  /\ \E r \in CalendarReminders, tz \in TimeZones :
       calendar = [reminder |-> r, tz |-> tz, date |-> NoDate, due |-> FALSE]

\* setSelectedDate(date); selectedDateReminders = getRemindersForDate(selectedDate)
SelectDate ==
  \E date \in 0..LastDate :
    /\ calendar' = [calendar EXCEPT !.date = date,
                                     !.due = getRemindersForDate(calendar.reminder, date,
                                                                 calendar.tz)]
    /\ UNCHANGED <<config, rows, remoteJobs, gatewayLog, pushDeliveries, lastResponse,
                   apiResponse, edgeRuns, scheduled, hookVars, clockVars, deviceVars,
                   sdkVars>>

NextCalendar == SelectDate

SpecCalendar == InitCalendar /\ [][NextCalendar]_vars

\* a date has been selected; it lies in the reminder's range, as calendar dates
Selected == calendar.date # NoDate
InRange ==
  /\ calendar.date >= calendar.reminder.startDate
  /\ (calendar.reminder.endDate = NoDate \/ calendar.date <= calendar.reminder.endDate)

\* C21: for a weekly reminder a date in range is due iff its distance from the start
\* date in whole calendar days is a multiple of 7, also when a daylight-saving change
\* lies between the two.
C21_WeeklyEverySeventhDay ==
  (Selected /\ calendar.reminder.frequency = "weekly" /\ InRange)
    => (calendar.due <=> (calendar.date - calendar.reminder.startDate) % 7 = 0)

\* C22: no reminder is due on a date outside its range, and a daily reminder is due on
\* exactly the dates in its range.
C22_DueOnlyInRange ==
  Selected =>
    /\ calendar.due => InRange
    /\ calendar.reminder.frequency = "daily" => (calendar.due <=> InRange)

\* a daily reminder with an end date, seen on the day after its end date in a zone
\* whose clocks changed in between, and found not due
C22_Witness ==
  /\ Selected
  /\ calendar.reminder.frequency = "daily"
  /\ calendar.reminder.endDate # NoDate
  /\ calendar.date = calendar.reminder.endDate + 1
  /\ calendar.tz.kind # "none"
  /\ ~calendar.due

\* C23: for a monthly reminder a date in range is due iff its day of the month is the
\* start date's day of the month; a month without that day has no due date.
C23_MonthlySameDayOfMonth ==
  (Selected /\ calendar.reminder.frequency = "monthly" /\ InRange)
    => (calendar.due <=> DayOfMonth(calendar.date) = DayOfMonth(calendar.reminder.startDate))

\* a monthly reminder anchored on the 31st, seen on the last day of April, in range,
\* and found not due
C23_Witness ==
  /\ Selected
  /\ calendar.reminder.frequency = "monthly"
  /\ DayOfMonth(calendar.reminder.startDate) = 31
  /\ MonthOf(calendar.date) = 4
  /\ DayOfMonth(calendar.date) = 30
  /\ InRange
  /\ ~calendar.due

(***************************************************************************)
(* The taken flag: two reminders that differ in nothing else, under the    *)
(* hook's matcher and under the send-notifications edge function           *)
(***************************************************************************)
TakenContents == {2, 6}

\* the query of the edge function: .contains('times', [currentTime]).eq('taken', false)
serve(stored, now) ==
  {id \in stored :
     /\ \E j \in 1..Len(Reminder(id).times) : Reminder(id).times[j] = CurrentTime(now)
     /\ Reminder(id).taken = FALSE}

CreateTaken == AddReminderWith(TakenContents, {"accepted"})

\* the edge function is invoked and prepares a notification for every selected row
EdgeFunctionRuns ==
  /\ edgeRuns' = edgeRuns \cup {[at |-> clock, stored |-> DOMAIN rows,
                                  selected |-> serve(DOMAIN rows, clock)]}
  /\ UNCHANGED <<config, calendar, scheduled, rows, remoteJobs, gatewayLog, pushDeliveries,
                 lastResponse, apiResponse, hookVars, clockVars, deviceVars, sdkVars>>

NextTaken ==
  \/ CreateTaken
  \/ EdgeFunctionRuns
  \/ Tick
  \/ AdvanceLocal

SpecTaken == InitRegular /\ [][NextTaken]_vars

\* C24: the taken flag does not affect scheduling: of two reminders that differ only in
\* taken, every run of the edge function selects both or neither, and every run of the
\* hook's matcher leaves the current occurrence of both claimed or of neither.
C24_TakenDoesNotAffectScheduling ==
  /\ \A run \in edgeRuns :
       (DbId(2) \in run.stored /\ DbId(6) \in run.stored)
         => (DbId(2) \in run.selected <=> DbId(6) \in run.selected)
  /\ (MatcherJustRan /\ Listed(ClientId(2)) /\ Listed(ClientId(6)))
       => (MedicationKey(ClientId(2), FormatTime(23, 59), clock) \in notifiedReminders
             <=> MedicationKey(ClientId(6), FormatTime(23, 59), clock) \in notifiedReminders)

(***************************************************************************)
(* A session whose gateway app id and REST key are missing or left at      *)
(* their placeholder                                                       *)
(***************************************************************************)
Misconfigured == config.appId # "set" \/ config.restKey # "set"

InitMisconfigured ==
  /\ InitMounted
  /\ InitServer
  /\ InitSdk
  /\ InitDevice
  /\ hasToken => browserPermission = "granted"
  /\ config \in {[appId |-> "placeholder", restKey |-> "placeholder"],
                 [appId |-> "empty", restKey |-> "empty"]}

\* OneSignalInit mounts, the user presses Enable
StartComponent == StartFlowOf({"initialize", "enable"}, MaxCallers)

\* a DELETE arrives for a notification id stored by an earlier session
CancelStoredRequest ==
  \E hasCookie \in BOOLEAN, gw \in GatewayOutcomes :
    LET req == [hasCookie |-> hasCookie, job |-> JobId(0, 1)]
        srv == ScheduleDELETE(Server(remoteJobs, gatewayLog, lastResponse), req, gw)
    IN /\ Cardinality(gatewayLog) < MaxRequests
       /\ remoteJobs' = srv.jobs
       /\ gatewayLog' = srv.log
       /\ lastResponse' = srv.last
       /\ UNCHANGED <<config, calendar, edgeRuns, scheduled, rows, pushDeliveries, apiResponse,
                      hookVars, clockVars, deviceVars, sdkVars>>

NextMisconfigured ==
  \/ StartComponent
  \/ ScheduleRequest
  \/ CancelStoredRequest
  \/ \E p \in DOMAIN callers : EnterCall(p)
  \/ \E p \in DOMAIN callers : InitAwaited(p)
  \/ \E p \in DOMAIN callers : InitializeContinues(p)
  \/ \E p \in DOMAIN callers : ensureSubscribed(p)
  \/ \E p \in DOMAIN callers : PermissionAnswered(p)
  \/ \E p \in DOMAIN callers : SubscriptionSettles(p)
  \/ \E p \in DOMAIN callers : setExternalUserId(p)

SpecMisconfigured == InitMisconfigured /\ [][NextMisconfigured]_vars

\* C25: a configuration error is fatal for the session: with the app id or the
\* credentials missing or at their placeholder, no call is made to the push SDK
\* (initialization, permission request, login) and no request reaches the gateway.
C25_ConfigurationErrorDisablesRemote ==
  Misconfigured => (sdkLog = {} /\ gatewayLog = {})

\* C26: when the gateway rejects a schedule request made while a reminder is created,
\* the request is not retried, the row is kept, the creation is answered as a success,
\* and the answer carries a warning about the rejection.
C26_RejectionKeptAndSurfaced ==
  \A e \in ScheduleRequests :
    e.outcome = "rejected" =>
      /\ RequestsFor(gatewayLog, "schedule", e.job) = 1
      /\ (apiResponse.op = "create" /\ apiResponse.id = e.job[1])
           => /\ apiResponse.status = 200
              /\ apiResponse.id \in DOMAIN rows
              /\ apiResponse.warning

(***************************************************************************)
(* The subscription flows while the user changes the site's notification   *)
(* permission in the browser settings                                      *)
(***************************************************************************)
\* the permission is changed in the settings; when it is taken away the push SDK keeps
\* or drops the subscription id it holds
SettingsChangeTo(permissions) ==
  \E p \in permissions, keeps \in BOOLEAN :
    /\ p # browserPermission
    /\ browserPermission' = p
    /\ hasToken' = (hasToken /\ (p = "granted" \/ keeps))
    /\ linked' = (linked /\ hasToken')
    /\ UNCHANGED <<matcherVars, clockVars, serverVars, sdkVars>>

SettingsChange == SettingsChangeTo(Permissions)

NextSettings ==
  \/ StartComponent
  \/ SettingsChange
  \/ SdkInitSettles
  \/ DeviceRegisters
  \/ \E p \in DOMAIN callers : EnterCall(p)
  \/ \E p \in DOMAIN callers : InitAwaited(p)
  \/ \E p \in DOMAIN callers : InitializeContinues(p)
  \/ \E p \in DOMAIN callers : ensureSubscribed(p)
  \/ \E p \in DOMAIN callers : PermissionAnswered(p)
  \/ \E p \in DOMAIN callers : SubscriptionSettles(p)
  \/ \E p \in DOMAIN callers : setExternalUserId(p)

SpecSettings == InitSubscription /\ [][NextSettings]_vars

\* C27: after the user has revoked the permission, a subscription check does not
\* report the subscription as subscribed on the strength of a device token obtained
\* earlier: every check that answers subscribed ran with the permission granted.
C27_RevokedNotReportedSubscribed ==
  \A p \in DOMAIN callers :
    callers[p].report.subscribed => callers[p].report.permission = "granted"

\* C28: with the permission granted (again) and no device token yet, a subscription
\* check registers the device or waits for the registration: a check that ran on the
\* initialized SDK with the permission granted and answered not subscribed has waited.
C28_RegrantedLeadsToSubscribed ==
  \A p \in DOMAIN callers :
    LET r == callers[p].report
    IN (r.made /\ r.initialized /\ r.permission = "granted" /\ ~r.subscribed)
         => r.waited

(***************************************************************************)
(* OneSignalInit without a user id in the session: the retries of          *)
(* initialize                                                              *)
(***************************************************************************)
\* how many runs of initialize one component is followed through
MaxRuns == 5

\* if (retryCount < 3)
MaxRetries == 3

\* useState(0): the retryCount of the first render. useEffect(..., []) runs once, after
\* that render, so the initialize it defines, the one the timer calls again, reads this
\* value in every run
MountRetryCount == 0

\* initialize, after initOneSignal and the 1 s wait, without a user id: with the
\* permission granted, setRetryCount(retryCount + 1) and setTimeout(() => initialize(),
\* 2000) while retryCount < 3, else the "max retries" log; 'default' schedules the
\* prompt; otherwise no action
InitializeRetries(p) ==
  /\ callers[p].pc = "body"
  /\ callers[p].fn = "initOneSignal"
  /\ callers[p].kind = "initializeNoUser"
  /\ IF browserPermission = "granted"
     THEN IF MountRetryCount < MaxRetries
          THEN /\ callers[p].runs < MaxRuns
               /\ callers' = [callers EXCEPT ![p].retryCount = MountRetryCount + 1,
                                             ![p].pc = "retryTimer"]
          ELSE callers' = [callers EXCEPT ![p] = Finished(@, "maxRetries")]
     ELSE IF browserPermission = "default"
     THEN callers' = [callers EXCEPT ![p] = Finished(@, "prompt")]
     ELSE callers' = [callers EXCEPT ![p] = Finished(@, "noAction")]
  /\ UNCHANGED <<isInitialized, initPromise, attempts, sdkLog, browserPermission,
                 matcherVars, clockVars, deviceVars, serverVars>>

\* the 2 s timer fires: initialize() runs again
RetryTimerFires(p) ==
  /\ callers[p].pc = "retryTimer"
  /\ callers' = [callers EXCEPT ![p].pc = "enter", ![p].runs = @ + 1]
  /\ UNCHANGED <<isInitialized, initPromise, attempts, sdkLog, browserPermission,
                 matcherVars, clockVars, deviceVars, serverVars>>

\* the component mounts on a page without a session
MountWithoutUser == StartFlowOf({"initializeNoUser"}, MaxCallers)

NextRetry ==
  \/ MountWithoutUser
  \/ SettingsChange
  \/ SdkInitSettles
  \/ \E p \in DOMAIN callers : EnterCall(p)
  \/ \E p \in DOMAIN callers : InitAwaited(p)
  \/ \E p \in DOMAIN callers : InitializeRetries(p)
  \/ \E p \in DOMAIN callers : RetryTimerFires(p)

SpecRetry == InitSubscription /\ [][NextRetry]_vars

\* C29: with the permission granted and no user id, initialize re-runs itself at most
\* 3 times and then stops: no component runs initialize more than 1 + 3 times.
C29_AtMostThreeRetries ==
  \A p \in DOMAIN callers : callers[p].runs <= 1 + MaxRetries

\* the user blocks notifications for the site
Revocation == SettingsChangeTo({"denied"})

NextComponent ==
  \/ StartComponent
  \/ Revocation
  \/ SdkInitSettles
  \/ DeviceRegisters
  \/ \E p \in DOMAIN callers : EnterCall(p)
  \/ \E p \in DOMAIN callers : InitAwaited(p)
  \/ \E p \in DOMAIN callers : InitializeContinues(p)
  \/ \E p \in DOMAIN callers : ensureSubscribed(p)
  \/ \E p \in DOMAIN callers : PermissionAnswered(p)
  \/ \E p \in DOMAIN callers : SubscriptionSettles(p)
  \/ \E p \in DOMAIN callers : setExternalUserId(p)

SpecComponent == InitSubscription /\ [][NextComponent]_vars

MountLists == {<<>>, <<ClientId(1)>>, <<ClientId(2), ClientId(1)>>}

InitUnmounted ==
  /\ InitHook
  /\ InitServer
  /\ InitSdk
  /\ config = [appId |-> "set", restKey |-> "set"]
  /\ hasToken = FALSE
  /\ linked = FALSE

\* the page's list is set, first or again
ListChanges == SetRemindersTo(MountLists)

NextMount ==
  \/ MountEffect
  \/ \E ok \in BOOLEAN : SwRegistered(ok)
  \/ ListChanges
  \/ Tick
  \/ Advance

SpecMount == InitUnmounted /\ [][NextMount]_vars

\* C31: a local delivery made while the permission is granted and the service-worker
\* registration has completed shows a platform notification besides the sound, whatever
\* the order of registration, permission read and list arrival before the ticker started.
C31_PlatformNotificationWhenReady ==
  \A d \in deliveries :
    (d.permission = "granted" /\ d.registered) => (d.sound /\ d.platform = "shown")

(***************************************************************************)
(* Reminders created at different moments around the times they hold       *)
(***************************************************************************)
\* the medication with the times 23:59 and 00:00, the appointment at 00:00
CreateContents == {1, 5}
\* the gateway accepts or rejects; the fetch of the schedule route throws
CreateOutcomes == {"accepted", "rejected", "apiDown"}

CreateAtAnyTime == AddReminderWith(CreateContents, CreateOutcomes)

NextCreate ==
  \/ CreateAtAnyTime
  \/ Advance

SpecCreate == InitRegular /\ [][NextCreate]_vars

\* if (notificationDate > new Date()): the entries of times that lie in the future
FutureTimes(r, now) == {i \in 1..Len(r.times) : AtTime(r.nextDate, r.times[i]) > now}

\* C32: when a reminder is created, every entry of times that lies strictly in the
\* future on the reminder's next date gets exactly one schedule request and no other
\* entry gets one: n future times give n requests.
C32_OneRequestPerFutureTime ==
  [][\A id \in DOMAIN rows' \ DOMAIN rows :
       /\ apiResponse'.calls = Cardinality(FutureTimes(Reminder(id), clock))
       /\ \A e \in gatewayLog' \ gatewayLog :
            e.op = "schedule" /\ e.sendAfter > clock /\ e.attempt = 1]_vars

(***************************************************************************)
(* scheduleReminderNotifications called for reminders that started today,  *)
(* within the last period, and longer ago                                  *)
(***************************************************************************)
\* the day of the calls: 2024-03-16
ScheduleDay == 75
ScheduleTimesLists == {<<FormatTime(8, 0)>>, <<FormatTime(8, 0), FormatTime(20, 0)>>,
                       <<FormatTime(12, 0), FormatTime(20, 0)>>}
ScheduleNows == {AtTime(ScheduleDay, FormatTime(7, 0)), AtTime(ScheduleDay, FormatTime(12, 0)),
                 AtTime(ScheduleDay, FormatTime(21, 0))}
\* start dates: today, tomorrow, yesterday, a week, ten days and 45 days ago (the 31st
\* of January)
ScheduleStarts == {ScheduleDay, ScheduleDay + 1, ScheduleDay - 1, ScheduleDay - 7,
                   ScheduleDay - 10, ScheduleDay - 45}
\* the handle window.setTimeout gives out next
TimerHandles == {1, 5}

InitSchedule ==
  /\ InitMountedAt(ScheduleNows)
  /\ InitServer
  /\ InitSdk
  /\ config = [appId |-> "set", restKey |-> "set"]
  /\ hasToken = FALSE
  /\ linked = FALSE

ScheduleReminder ==
  \E times \in ScheduleTimesLists, startDate \in ScheduleStarts,
     frequency \in {"daily", "weekly", "monthly"}, next \in TimerHandles :
    LET b == scheduleReminderNotifications(times, startDate, frequency, clock, next)
    IN /\ scheduled' = [made |-> TRUE, times |-> times, startDate |-> startDate,
                        frequency |-> frequency, now |-> clock,
                        ids |-> b.ids, timers |-> b.timers, shown |-> b.shown]
       /\ UNCHANGED <<clockVars, hookVars, deviceVars, sdkVars, config, rows, remoteJobs,
                      gatewayLog, pushDeliveries, lastResponse, apiResponse, calendar,
                      edgeRuns>>

NextSchedule == ScheduleReminder

SpecSchedule == InitSchedule /\ [][NextSchedule]_vars

\* C33: scheduleReminderNotifications schedules every time-of-day at an occurrence
\* strictly after now, shows no notification immediately, and returns one positive
\* timer id per entry of times, also when startDate lies more than one period back.
C33_EveryTimeScheduledInFuture ==
  scheduled.made =>
    /\ scheduled.shown = {}
    /\ Len(scheduled.ids) = Len(scheduled.times)
    /\ \A i \in 1..Len(scheduled.ids) : scheduled.ids[i] > 0
    /\ \A t \in scheduled.timers : t[2] > scheduled.now

(***************************************************************************)
(* POST /api/notifications/schedule under every configuration              *)
(***************************************************************************)
\* process.env.X || '': a variable is set to a real value, not set, or left at the
\* placeholder of the setup guide
ConfigValues == {"set", "empty", "placeholder"}

InitEndpoint ==
  /\ InitMounted
  /\ InitServer
  /\ InitSdk
  /\ hasToken = FALSE
  /\ linked = FALSE
  /\ config \in [appId : ConfigValues, restKey : ConfigValues]

\* a POST arrives; the answer is kept with what the request carried and whether the
\* gateway was contacted for it
SchedulePostArrives ==
  \E hasCookie \in BOOLEAN, hasFields \in BOOLEAN, gw \in GatewayOutcomes :
    LET n == Cardinality(ScheduleRequests) + 1
        req == [hasCookie |-> hasCookie, user |-> SessionUser, hasFields |-> hasFields,
                job |-> JobId(0, n), reminderId |-> 0, time |-> FormatTime(0, 0),
                sendAfter |-> AtTime(StartDay + 1, FormatTime(0, 0))]
        srv == SchedulePOST(Server(remoteJobs, gatewayLog, lastResponse), req, gw)
    IN /\ Cardinality(gatewayLog) < MaxRequests
       /\ remoteJobs' = srv.jobs
       /\ gatewayLog' = srv.log
       /\ lastResponse' = [op |-> "POST", hasCookie |-> hasCookie, hasFields |-> hasFields,
                           contacted |-> srv.log # gatewayLog] @@ srv.last
       /\ UNCHANGED <<config, calendar, edgeRuns, scheduled, rows, pushDeliveries,
                      apiResponse, hookVars, clockVars, deviceVars, sdkVars>>

NextEndpoint ==
  \/ SchedulePostArrives
  \/ CancelRequest

SpecEndpoint == InitEndpoint /\ [][NextEndpoint]_vars

Configured == config.appId = "set" /\ config.restKey = "set"
PostAnswered == "op" \in DOMAIN lastResponse

ClientIds == {ClientId(c) : c \in Contents}

\* the contents of the list and of the table
ListedContents == {ContentOf(reminders[i]) : i \in 1..Len(reminders)}
StoredContents == {ContentOf(id) : id \in DOMAIN rows}

\* C35: after addReminder succeeded and removeReminder for the same reminder reported
\* success with no reload in between, the table no longer holds the row that addReminder
\* created, a cancel was issued for each of its jobs, and the client's list and the table
\* agree on which reminders exist.
C35_RemoveAfterAddDeletesRow ==
  (apiResponse.op = "delete" /\ apiResponse.status = 200 /\ apiResponse.id \in ClientIds)
    => LET row == DbId(ContentOf(apiResponse.id))
       IN /\ row \notin DOMAIN rows
          /\ \A j \in remoteJobs :
               j.reminderId = row => RequestsFor(gatewayLog, "cancel", j.id) > 0
          /\ ListedContents = StoredContents

(***************************************************************************)
(* initOneSignal with attempts that fail, and with the app id configured   *)
(* or left at its placeholder                                              *)
(***************************************************************************)
InitModule ==
  /\ InitMounted
  /\ InitServer
  /\ InitSdk
  /\ InitDevice
  /\ hasToken => browserPermission = "granted"
  /\ config \in {[appId |-> "set", restKey |-> "set"],
                 [appId |-> "placeholder", restKey |-> "placeholder"]}

\* OneSignalInit mounts, Enable is pressed, setExternalUserId is called
StartModuleFlow == StartFlowOf({"initialize", "enable", "link"}, MaxCallers)

NextModule ==
  \/ StartModuleFlow
  \/ SdkInitSettles
  \/ DeviceRegisters
  \/ \E p \in DOMAIN callers : EnterCall(p)
  \/ \E p \in DOMAIN callers : InitAwaited(p)
  \/ \E p \in DOMAIN callers : InitializeContinues(p)
  \/ \E p \in DOMAIN callers : ensureSubscribed(p)
  \/ \E p \in DOMAIN callers : PermissionAnswered(p)
  \/ \E p \in DOMAIN callers : SubscriptionSettles(p)
  \/ \E p \in DOMAIN callers : setExternalUserId(p)

SpecModule == InitModule /\ [][NextModule]_vars

\* C36: when an initialization attempt fails, every caller that awaited it observes
\* the failure (none goes on as if initialized), the module is uninitialized with no
\* attempt recorded as in flight, and the next initOneSignal call starts a fresh
\* attempt; the module is marked initialized only after an attempt that initialized
\* the SDK, never after one that ended for another reason.
C36_FailedInitResets ==
  /\ [](/\ \A p \in DOMAIN callers :
            (callers[p].attempt # 0 /\ attempts[callers[p].attempt] = "failed")
              => /\ callers[p].pc \in {"awaitInit", "done"}
                 /\ callers[p].pc = "done"
                      => callers[p].out \in {"initFailed", "notSubscribed", "threw"}
                 /\ ~callers[p].report.subscribed
        /\ initPromise # 0 => attempts[initPromise] # "failed"
        /\ (attempts # <<>> /\ attempts[Len(attempts)] = "failed")
             => (~isInitialized /\ initPromise = 0)
        /\ isInitialized => \E a \in DOMAIN attempts : attempts[a] = "ok"
        /\ (\A a \in DOMAIN attempts : attempts[a] = "skipped") => ~isInitialized)
  /\ [][\A p \in DOMAIN callers :
         (callers[p].pc = "enter" /\ callers'[p].pc # "enter"
            /\ ~isInitialized /\ initPromise = 0)
           => /\ Len(attempts') = Len(attempts) + 1
              /\ initPromise' = Len(attempts')
              /\ callers'[p].attempt = Len(attempts')]_vars

\* a caller has observed the failure of the first attempt and another caller waits on
\* the fresh attempt started after it
C36_Witness ==
  \E p, q \in DOMAIN callers :
    /\ attempts = <<"failed", "running">>
    /\ callers[p].attempt = 1 /\ callers[p].pc = "done"
    /\ callers[q].attempt = 2 /\ callers[q].pc = "awaitInit"
    /\ initPromise = 2
    /\ ~isInitialized

\* C37: at most one matcher interval is set per hook instance: a change of the list
\* or of the permission clears the previous interval before a new one is set, and no
\* interval is set while the hook's permission is not granted or the list is empty.
C37_AtMostOneInterval ==
  /\ Cardinality(intervals) <= 1
  /\ intervals # {} => (notificationPermission = "granted" /\ Len(reminders) > 0)
  /\ intervals # {} => intervals = {checkIntervalRef}
  /\ intervalActive <=> intervals # {}

\* an interval was set and then cleared when the list became empty, with the
\* permission still granted
C37_Witness ==
  /\ checkIntervalRef # 0
  /\ intervals = {}
  /\ reminders = <<>>
  /\ notificationPermission = "granted"
  /\ deliveries # {}

(***************************************************************************)
(* /api/notifications/schedule with the sessions of two users              *)
(***************************************************************************)
InitSessions ==
  /\ InitMounted
  /\ InitServer
  /\ InitSdk
  /\ hasToken = FALSE
  /\ linked = FALSE
  /\ config = [appId |-> "set", restKey |-> "set"]

JobOwner(jobs, job) ==
  IF \E j \in jobs : j.id = job THEN (CHOOSE j \in jobs : j.id = job).user ELSE "nobody"

\* a POST arrives with the session cookie of one of the users
SchedulePostOf ==
  \E user \in Users, gw \in GatewayOutcomes :
    LET n == Cardinality(ScheduleRequests) + 1
        req == [hasCookie |-> TRUE, user |-> user, hasFields |-> TRUE,
                job |-> JobId(0, n), reminderId |-> 0, time |-> FormatTime(0, 0),
                sendAfter |-> AtTime(StartDay + 1, FormatTime(0, 0))]
        srv == SchedulePOST(Server(remoteJobs, gatewayLog, lastResponse), req, gw)
    IN /\ Cardinality(ScheduleRequests) < MaxRequests
       /\ remoteJobs' = srv.jobs
       /\ gatewayLog' = srv.log
       /\ lastResponse' = srv.last
       /\ UNCHANGED <<config, calendar, edgeRuns, scheduled, rows, pushDeliveries,
                      apiResponse, hookVars, clockVars, deviceVars, sdkVars>>

\* a DELETE arrives, with or without the session cookie of one of the users, for a job
\* the gateway holds; the answer is kept with the session's user, the user the job was
\* scheduled for and whether this request cancelled the job
ScheduleDeleteOf ==
  \E hasCookie \in BOOLEAN, user \in Users, job \in {j.id : j \in remoteJobs},
     gw \in GatewayOutcomes :
    LET req == [hasCookie |-> hasCookie, user |-> user, job |-> job]
        srv == ScheduleDELETE(Server(remoteJobs, gatewayLog, lastResponse), req, gw)
    IN /\ Cardinality(gatewayLog \ ScheduleRequests) < MaxRequests
       /\ remoteJobs' = srv.jobs
       /\ gatewayLog' = srv.log
       /\ lastResponse' = [op |-> "DELETE", hasCookie |-> hasCookie, user |-> user,
                           owner |-> JobOwner(remoteJobs, job),
                           cancelled |-> /\ JobStatus(remoteJobs, job) = "Pending"
                                         /\ JobStatus(srv.jobs, job) = "Cancelled"]
                          @@ srv.last
       /\ UNCHANGED <<config, calendar, edgeRuns, scheduled, rows, pushDeliveries,
                      apiResponse, hookVars, clockVars, deviceVars, sdkVars>>

NextSessions ==
  \/ SchedulePostOf
  \/ ScheduleDeleteOf

SpecSessions == InitSessions /\ [][NextSessions]_vars

DeleteAnswered == "owner" \in DOMAIN lastResponse

\* C38: a request to the cancel endpoint cancels a remote job only when the job was
\* scheduled for the user of the request's session: no user cancels the job of
\* another user.
C38_CancelOnlyOwnJobs ==
  (DeleteAnswered /\ lastResponse.cancelled) =>
    (lastResponse.hasCookie /\ lastResponse.user = lastResponse.owner)
====
